---- MODULE Spec2Model ----
(***************************************************************************)
(* ProxyDAV: the virtual filesystem (internal/filesystem), its persistent   *)
(* store (internal/storage) and the path functions of Go's "path" and       *)
(* "strings" packages that the filesystem calls.                            *)
(*                                                                          *)
(* A path is a Go string, modelled as a sequence of one-character strings:  *)
(* "/a/b" is <<"/", "a", "/", "b">>.  The empty string is << >>.            *)
(***************************************************************************)
EXTENDS Integers, Sequences, FiniteSets, TLC

(***************************************************************************)
(* Bounds of the model.                                                     *)
(***************************************************************************)
\* deepest path (in elements) a directory move or copy may produce
MaxDepth == 3
\* most paths that are a file in the store or in the index at one time
MaxFiles == 2
\* most store calls that fail in one behaviour of the faulty store
MaxFailures == 1
\* most calls made on one VFS
MaxCalls == 4
MaxRequests == 3
\* the cache's ttl and maxSize, in ticks of its clock and in entries
TTL == 2
MaxSize == 2
\* the clock of the cache stops here
MaxTime == 5
\* most HEAD requests one remote url receives
MaxHeads == 2
\* most items of one bulk request
MaxBulk == 2

(***************************************************************************)
(* strings: HasPrefix, TrimPrefix                                           *)
(***************************************************************************)
HasPrefix(s, prefix) ==
    /\ Len(s) >= Len(prefix)
    /\ SubSeq(s, 1, Len(prefix)) = prefix

TrimPrefix(s, prefix) ==
    IF HasPrefix(s, prefix) THEN SubSeq(s, Len(prefix) + 1, Len(s)) ELSE s

(***************************************************************************)
(* path: Clean, Dir, Base                                                   *)
(***************************************************************************)
\* index of the last "/" of s, 0 when there is none (strings.LastIndex + 1)
RECURSIVE LastSlash(_, _)
LastSlash(s, i) ==
    IF i = 0 THEN 0
    ELSE IF s[i] = "/" THEN i
    ELSE LastSlash(s, i - 1)

\* the "/"-separated elements of s, empty elements included
RECURSIVE Elements(_, _, _)
Elements(s, i, cur) ==
    IF i > Len(s) THEN <<cur>>
    ELSE IF s[i] = "/" THEN <<cur>> \o Elements(s, i + 1, << >>)
    ELSE Elements(s, i + 1, Append(cur, s[i]))

\* path.Clean's element rules on a rooted path: drop empty and "." elements,
\* let ".." remove the element before it, and drop a ".." that begins the
\* rooted path
RECURSIVE CleanElements(_, _, _)
CleanElements(es, i, out) ==
    IF i > Len(es) THEN out
    ELSE IF es[i] = << >> \/ es[i] = <<".">> THEN CleanElements(es, i + 1, out)
    ELSE IF es[i] = <<".", ".">>
         THEN CleanElements(es, i + 1,
                            IF out = << >> THEN out
                            ELSE SubSeq(out, 1, Len(out) - 1))
    ELSE CleanElements(es, i + 1, Append(out, es[i]))

RECURSIVE JoinRooted(_, _)
JoinRooted(es, i) ==
    IF i > Len(es) THEN << >>
    ELSE <<"/">> \o es[i] \o JoinRooted(es, i + 1)

\* path.Clean for a path that begins with "/" (the only use in the filesystem)
Clean(s) ==
    LET es == CleanElements(Elements(s, 1, << >>), 1, << >>)
    IN  IF es = << >> THEN <<"/">> ELSE JoinRooted(es, 1)

\* path.Clean("/" + strings.TrimPrefix(p, "/"))
Canon(p) == Clean(<<"/">> \o TrimPrefix(p, <<"/">>))

\* path.Dir for a cleaned rooted path
Dir(p) ==
    LET i == LastSlash(p, Len(p))
    IN  IF i <= 1 THEN (IF i = 0 THEN <<".">> ELSE <<"/">>)
        ELSE SubSeq(p, 1, i - 1)

\* the number of elements of a cleaned rooted path
Depth(p) == IF p = <<"/">> THEN 0 ELSE Cardinality({i \in 1 .. Len(p) : p[i] = "/"})

\* path.Base for a cleaned rooted path
Base(p) ==
    IF p = <<"/">> THEN <<"/">>
    ELSE SubSeq(p, LastSlash(p, Len(p)) + 1, Len(p))

(***************************************************************************)
(* Inputs                                                                   *)
(***************************************************************************)
Root == <<"/">>

\* canonical paths the callers pass
Paths ==
    { Root,
      <<"/", "a">>,
      <<"/", "b">>,
      <<"/", "a", "/", "a">>,
      <<"/", "a", "/", "b">>,
      <<"/", "a", "/", "b", "/", "a">> }

\* other spellings of the same paths
Spellings ==
    { <<"a", "/">> }

RawPaths == Paths \cup Spellings

URLs == {"u1", "u2"}

(***************************************************************************)
(* State                                                                    *)
(***************************************************************************)
VARIABLES
    items,   \* VirtualFS.items: path -> VirtualItem
    dirs,    \* VirtualFS.dirs: the paths mapped to true
    store,   \* PersistentStore, "entry:" keys: path -> url
    faults,  \* store calls that may still fail
    calls,   \* calls made so far
    added,   \* paths whose AddFile succeeded and whose RemoveFile has not since
    op,      \* the operation called last
    args,    \* its cleaned path arguments when it succeeded, << >> when it erred
    err,     \* whether the last call returned an error
    mutex,   \* VirtualFS.mutex: its writer ("" when none) and its readers
    pc,      \* where each goroutine stands in its call
    call,    \* the call each goroutine is making, with its local variables
    lin,     \* the VFS had the calls run one after the other, in the order
             \* in which they released the mutex, and who released it last
    handler, \* the WebDAV request being served and the status of the last
             \* response written
    metadataCache, \* the MetadataCache, its clock and its cleanup goroutine
    cacheMutex, \* MetadataCache.mutex: the goroutine holding it for writing and
             \* the goroutines holding it for reading
    server,  \* the process: where main is in its loop, the Server instance it
             \* runs, its wait loop, HTTP server and store, what signal each
             \* instance accepted and what its Start returned
    propfind, \* the PROPFIND request being served call by call: its path and
             \* Depth, the hrefs of the responses collected, the listing taken
    bulk,    \* the REST bulk request being served: its payload, the index of
             \* the next item, the counts and the status of the response
    fileMetadata \* PersistentStore, "metadata:" keys: url -> FileMetadata; the HEAD
             \* requests each remote url has received; the last resolution

vars == <<items, dirs, store, faults, calls, added, op, args, err, mutex, pc, call, lin,
          handler, metadataCache, fileMetadata, bulk, propfind, cacheMutex, server>>

\* map helpers: m[k] = v and delete(m, k)
Put(f, k, v) == [x \in (DOMAIN f) \cup {k} |-> IF x = k THEN v ELSE f[x]]
Del(f, k) == [x \in (DOMAIN f) \ {k} |-> f[x]]
EmptyMap == [x \in {} |-> x]

\* types.VirtualItem
FileItem(p, u) == [Name |-> Base(p), Path |-> p, URL |-> u, IsDir |-> FALSE]
DirItem(p) == [Name |-> Base(p), Path |-> p, URL |-> "", IsDir |-> TRUE]

\* the in-memory index as one value
Mem(it, ds) == [items |-> it, dirs |-> ds]

(***************************************************************************)
(* Lookups                                                                  *)
(***************************************************************************)
ExistsIn(m, p) == p \in DOMAIN m.items \/ p \in m.dirs
IsDirIn(m, p) == IF p \in DOMAIN m.items THEN m.items[p].IsDir ELSE p \in m.dirs

Exists(p) == ExistsIn(Mem(items, dirs), p)
IsDir(p) == IsDirIn(Mem(items, dirs), p)
isDir(p) == IsDirIn(Mem(items, dirs), p)
\* GetItem: the item and whether there is one; no item is modelled as << >>
GetItem(p) == IF p \in DOMAIN items THEN <<items[p], TRUE>> ELSE << << >>, FALSE>>

\* GetAllFiles as the set of its FileEntry values (its sort is by Path)
FilesOf(it) == { [Path |-> it[p].Path, URL |-> it[p].URL] : p \in {q \in DOMAIN it : ~it[q].IsDir} }
GetAllFiles == FilesOf(items)

\* GetAllFileEntries as the set of its FileEntry values
StoreEntries(st) == { [Path |-> p, URL |-> st[p]] : p \in DOMAIN st }

(***************************************************************************)
(* Helpers of the mutations                                                 *)
(***************************************************************************)
\* the loop of addFileToMemory over the parent directories
RECURSIVE AddParents(_, _)
AddParents(m, dir) ==
    IF dir = Root \/ dir = <<".">> THEN m
    ELSE IF dir \notin m.dirs
         THEN AddParents(Mem(Put(m.items, dir, DirItem(dir)), m.dirs \cup {dir}), Dir(dir))
         ELSE AddParents(m, Dir(dir))

addFileToMemory(m, filePath, fileURL) ==
    LET fp == Canon(filePath)
    IN  AddParents(Mem(Put(m.items, fp, FileItem(fp, fileURL)), m.dirs), Dir(fp))

RECURSIVE CleanupFrom(_, _)
CleanupFrom(m, dir) ==
    IF dir = Root \/ dir = <<".">> THEN m
    ELSE IF \E itemPath \in DOMAIN m.items : Dir(itemPath) = dir
         THEN m
         ELSE CleanupFrom(Mem(Del(m.items, dir), m.dirs \ {dir}), Dir(dir))

\* cleanupEmptyDirectories without the walk upwards: only the parent directory
\* is examined
cleanupParentOnly(m, filePath) ==
    LET dir == Dir(filePath)
    IN  IF dir = Root \/ dir = <<".">> THEN m
        ELSE IF \E itemPath \in DOMAIN m.items : Dir(itemPath) = dir
             THEN m
             ELSE Mem(Del(m.items, dir), m.dirs \ {dir})

cleanupEmptyDirectories(m, filePath) == CleanupFrom(m, Dir(filePath))

RECURSIVE EnsureFrom(_, _)
EnsureFrom(m, dir) ==
    IF dir = Root \/ dir = <<".">> THEN m
    ELSE IF dir \notin DOMAIN m.items
         THEN EnsureFrom(Mem(Put(m.items, dir, DirItem(dir)), m.dirs \cup {dir}), Dir(dir))
         ELSE EnsureFrom(m, Dir(dir))

\* an ensureDirectoriesExist that turns a file on the way into a directory
ensureDirectoriesOverFiles(m, filePath) ==
    LET e == EnsureFrom(m, Dir(filePath)) IN
    Mem([q \in DOMAIN e.items |->
            IF HasPrefix(filePath, q \o <<"/">>) /\ ~e.items[q].IsDir
            THEN DirItem(q) ELSE e.items[q]],
        e.dirs)

ensureDirectoriesExist(m, filePath) == EnsureFrom(m, Dir(filePath))

\* strings.HasPrefix(p, d+"/") || p == d
Under(p, d) == HasPrefix(p, d \o <<"/">>) \/ p = d

\* destPath + strings.TrimPrefix(p, sourcePath)
Rebase(p, sourcePath, destPath) == destPath \o TrimPrefix(p, sourcePath)

(***************************************************************************)
(* Orders of iteration                                                      *)
(***************************************************************************)
\* every order in which a loop over a Go map or a list built from one may
\* visit the set S
RECURSIVE Perms(_)
Perms(S) ==
    IF S = {} THEN { << >> }
    ELSE UNION { { <<x>> \o q : q \in Perms(S \ {x}) } : x \in S }

RECURSIVE SetToSeq(_)
SetToSeq(S) ==
    IF S = {} THEN << >>
    ELSE LET x == CHOOSE y \in S : TRUE IN <<x>> \o SetToSeq(S \ {x})

\* The orders that can differ in their result for a loop that reads the key
\* p and writes the key Rebase(p): when no written key is itself a key of S
\* the writes do not meet the reads and one order stands for all.
Orders(S, sourcePath, destPath) ==
    IF \E x \in S, y \in S : Rebase(x, sourcePath, destPath) = y
    THEN Perms(S)
    ELSE { SetToSeq(S) }

(***************************************************************************)
(* filesystem.New: the index rebuilt from the store                         *)
(***************************************************************************)
\* byte order of the characters of a path
CharRank(c) ==
    CASE c = "." -> 46 [] c = "/" -> 47 [] c = "A" -> 65 [] c = "B" -> 66
      [] c = "a" -> 97 [] c = "b" -> 98 [] OTHER -> 127

\* s < t in byte-wise lexicographic order (the store iterates keys this way)
RECURSIVE KeyLess(_, _, _)
KeyLess(s, t, i) ==
    IF i > Len(s) THEN i <= Len(t)
    ELSE IF i > Len(t) THEN FALSE
    ELSE IF s[i] = t[i] THEN KeyLess(s, t, i + 1)
    ELSE CharRank(s[i]) < CharRank(t[i])

RECURSIVE SortedKeys(_)
SortedKeys(S) ==
    IF S = {} THEN << >>
    ELSE LET x == CHOOSE y \in S : \A z \in S \ {y} : KeyLess(y, z, 1)
         IN  <<x>> \o SortedKeys(S \ {x})

RECURSIVE LoadFiles(_, _, _, _)
LoadFiles(m, st, keys, i) ==
    IF i > Len(keys) THEN m
    ELSE LoadFiles(addFileToMemory(m, keys[i], st[keys[i]]), st, keys, i + 1)

New(st) == LoadFiles(Mem(EmptyMap, {Root}), st, SortedKeys(DOMAIN st), 1)

(***************************************************************************)
(* Goroutines that call the VFS                                             *)
(***************************************************************************)
Writers == {"w1", "w2"}
Readers == {"r1"}
\* the goroutines serving HTTP requests
Requests == {"q1", "q2"}
Goroutines == Writers \cup Readers \cup Requests

\* the Server instances main may create one after the other
MaxInstances == 3
Instances == 1 .. MaxInstances

\* the process before main has created its first Server
NoServer ==
    [instance |-> 1, main |-> "New", wait |-> "none", isRestart |-> FALSE,
     httpServer |-> "none", quit |-> FALSE, open |-> {}, down |-> {}, closed |-> {},
     accepted |-> [i \in Instances |-> ""], returned |-> [i \in Instances |-> ""],
     restarted |-> {}, n |-> 0, last |-> [name |-> "", ok |-> FALSE]]

\* no call is being made
NoCall == [name |-> "", src |-> << >>, dst |-> << >>, url |-> "", dir |-> << >>, ok |-> FALSE]

\* every goroutine is outside the VFS and the mutex is free
NoGoroutines ==
    /\ mutex = [writer |-> "", readers |-> {}]
    /\ pc = [g \in Goroutines |-> "idle"]
    /\ call = [g \in Goroutines |-> NoCall]
    /\ lin = [items |-> EmptyMap, dirs |-> {Root}, store |-> EmptyMap, last |-> ""]

\* cache.New: an empty cache at time 0, its cleanup goroutine waiting in its
\* select, no tick in the ticker's channel, the context not cancelled; set and
\* dropped are the history of the calls: the metadata last Set for each url,
\* and the urls cleared or evicted since
NewCache ==
    [cache |-> EmptyMap, now |-> 0, cancelled |-> FALSE, tick |-> FALSE,
     cleanup |-> "select", set |-> EmptyMap, dropped |-> {}]

\* no metadata record in the store, no HEAD request received by any remote
\* url, no resolution made yet
NoMetadata ==
    [store |-> EmptyMap, heads |-> [url \in {"u1", "u2"} |-> 0],
     last |-> [url |-> "", head |-> FALSE, metadata |-> << >>, prop |-> << >>]]

\* no PROPFIND request is being served
NoPropFind ==
    [stage |-> "idle", path |-> << >>, depth |-> "", responses |-> << >>,
     children |-> << >>, i |-> 1, status |-> 0]

\* no bulk request is being served
NoBulk ==
    [stage |-> "idle", operation |-> "", files |-> << >>, i |-> 1, successful |-> 0,
     failed |-> 0, status |-> 0]

\* no request is being served and no response was written yet
NoRequest ==
    [stage |-> "idle", method |-> "", src |-> << >>, dst |-> << >>, status |-> 0,
     header |-> EmptyMap]

(***************************************************************************)
(* Init: a VFS built by New over an empty store                             *)
(***************************************************************************)
Init ==
    /\ store = EmptyMap
    /\ items = New(EmptyMap).items
    /\ dirs = New(EmptyMap).dirs
    /\ faults = 0
    /\ calls = 0
    /\ added = {}
    /\ op = "New"
    /\ args = << >>
    /\ err = FALSE
    /\ NoGoroutines
    /\ handler = NoRequest
    /\ metadataCache = NewCache
    /\ fileMetadata = NoMetadata
    /\ bulk = NoBulk
    /\ propfind = NoPropFind
    /\ cacheMutex = [writer |-> "", readers |-> {}]
    /\ server = NoServer

\* the caps that keep the model finite
Bounded ==
    /\ Cardinality((DOMAIN store') \cup {p \in DOMAIN items' : ~items'[p].IsDir}) <= MaxFiles
    /\ \A p \in (DOMAIN items') \cup dirs' \cup (DOMAIN store') : Depth(p) <= MaxDepth

\* a store call may fail while the store has failures left to give
MayFail == faults > 0

\* the call returns an error having changed nothing
Reject ==
    /\ err' = TRUE
    /\ UNCHANGED <<items, dirs, store, faults>>

(***************************************************************************)
(* AddFile, UpdateFile, RemoveFile                                          *)
(***************************************************************************)
AddFile(filePath, fileURL) ==
    LET fp == Canon(filePath) IN
    IF fp \in DOMAIN items \/ fp \in dirs
    THEN Reject
    ELSE \/ /\ MayFail                       \* SetFileEntry fails
            /\ faults' = faults - 1
            /\ err' = TRUE
            /\ UNCHANGED <<items, dirs, store>>
         \/ /\ store' = Put(store, fp, fileURL)
            /\ LET m == addFileToMemory(Mem(items, dirs), fp, fileURL)
               IN  items' = m.items /\ dirs' = m.dirs
            /\ err' = FALSE
            /\ UNCHANGED faults
            /\ Bounded

UpdateFile(filePath, fileURL) ==
    LET fp == Canon(filePath) IN
    IF fp \notin DOMAIN items \/ items[fp].IsDir
    THEN Reject
    ELSE \/ /\ MayFail                       \* SetFileEntry fails
            /\ faults' = faults - 1
            /\ err' = TRUE
            /\ UNCHANGED <<items, dirs, store>>
         \/ /\ store' = Put(store, fp, fileURL)
            /\ items' = [items EXCEPT ![fp].URL = fileURL]
            /\ err' = FALSE
            /\ UNCHANGED <<dirs, faults>>
            /\ Bounded

RemoveFile(filePath) ==
    LET fp == Canon(filePath) IN
    IF fp \notin DOMAIN items \/ items[fp].IsDir
    THEN Reject
    ELSE \/ /\ MayFail                       \* DeleteFileEntry fails
            /\ faults' = faults - 1
            /\ err' = TRUE
            /\ UNCHANGED <<items, dirs, store>>
         \/ /\ store' = Del(store, fp)
            /\ LET m == cleanupEmptyDirectories(Mem(Del(items, fp), dirs), fp)
               IN  items' = m.items /\ dirs' = m.dirs
            /\ err' = FALSE
            /\ UNCHANGED faults

(***************************************************************************)
(* MoveFile, CopyFile                                                       *)
(***************************************************************************)
MoveFile(sourcePath, destPath) ==
    LET sp == Canon(sourcePath)
        dp == Canon(destPath)
    IN
    IF sp \notin DOMAIN items \/ items[sp].IsDir \/ dp \in DOMAIN items
    THEN Reject
    ELSE LET m1 == ensureDirectoriesExist(Mem(items, dirs), dp)
             url == items[sp].URL
         IN
         \/ /\ MayFail                       \* SetFileEntry fails
            /\ faults' = faults - 1
            /\ items' = m1.items /\ dirs' = m1.dirs
            /\ err' = TRUE
            /\ UNCHANGED store
            /\ Bounded
         \/ /\ MayFail                       \* DeleteFileEntry(source) fails
            /\ \/ /\ faults' = faults - 1      \* and the rollback deletes dest
                  /\ store' = Del(store, dp)
               \/ /\ faults > 1 \* and the rollback fails too
                  /\ faults' = faults - 2
                  /\ store' = Put(store, dp, url)
            /\ items' = m1.items /\ dirs' = m1.dirs
            /\ err' = TRUE
            /\ Bounded
         \/ /\ store' = Del(Put(store, dp, url), sp)
            /\ LET m2 == Mem(Del(Put(m1.items, dp, FileItem(dp, url)), sp), m1.dirs)
                   m3 == cleanupEmptyDirectories(m2, sp)
               IN  items' = m3.items /\ dirs' = m3.dirs
            /\ err' = FALSE
            /\ UNCHANGED faults
            /\ Bounded

CopyFile(sourcePath, destPath) ==
    LET sp == Canon(sourcePath)
        dp == Canon(destPath)
    IN
    IF sp \notin DOMAIN items \/ items[sp].IsDir \/ dp \in DOMAIN items
    THEN Reject
    ELSE LET m1 == ensureDirectoriesExist(Mem(items, dirs), dp)
             url == items[sp].URL
         IN
         \/ /\ MayFail                       \* SetFileEntry fails
            /\ faults' = faults - 1
            /\ items' = m1.items /\ dirs' = m1.dirs
            /\ err' = TRUE
            /\ UNCHANGED store
            /\ Bounded
         \/ /\ store' = Put(store, dp, url)
            /\ items' = Put(m1.items, dp, FileItem(dp, url))
            /\ dirs' = m1.dirs
            /\ err' = FALSE
            /\ UNCHANGED faults
            /\ Bounded

(***************************************************************************)
(* RemoveDirectory, MoveDirectory, CopyDirectory                            *)
(***************************************************************************)
\* the items a directory operation collects, and the files among them
ItemsUnder(it, d) == { itemPath \in DOMAIN it : Under(itemPath, d) }
FilesUnder(it, d) == { itemPath \in ItemsUnder(it, d) : ~it[itemPath].IsDir }
DirsUnder(ds, d) == { dir \in ds : Under(dir, d) }

\* delete(m, k) for every k of S
DelAll(f, S) == [x \in (DOMAIN f) \ S |-> f[x]]

RemoveDirectory(dirPath) ==
    LET dp == Canon(dirPath) IN
    IF dp = Root \/ ~isDir(dp)
    THEN Reject
    ELSE LET itemsToRemove == ItemsUnder(items, dp)
             files == FilesUnder(items, dp)
         IN
         \/ /\ MayFail                       \* a DeleteFileEntry fails
            /\ \E done \in (SUBSET files) \ {files} :
                  store' = DelAll(store, done)
            /\ faults' = faults - 1
            /\ err' = TRUE
            /\ UNCHANGED <<items, dirs>>
         \/ /\ store' = DelAll(store, files)
            /\ items' = DelAll(items, itemsToRemove)
            /\ dirs' = dirs \ DirsUnder(dirs, dp)
            /\ err' = FALSE
            /\ UNCHANGED faults

\* the store after the first k files of ord were re-keyed: SetFileEntry(new)
\* then DeleteFileEntry(old), one file after the other
RECURSIVE MoveEntries(_, _, _, _, _, _)
MoveEntries(st, it, ord, k, sourcePath, destPath) ==
    IF k = 0 THEN st
    ELSE LET prev == MoveEntries(st, it, ord, k - 1, sourcePath, destPath)
             newPath == Rebase(ord[k], sourcePath, destPath)
         IN  Del(Put(prev, newPath, it[ord[k]].URL), ord[k])

\* the item stored at newPath for the item now at itemPath
Moved(it, itemPath, newPath) ==
    [Name |-> Base(newPath), Path |-> newPath,
     URL |-> it[itemPath].URL, IsDir |-> it[itemPath].IsDir]

\* newItems of MoveDirectory, added after the old items were deleted
MoveItems(it, itemsToMove, sourcePath, destPath) ==
    LET newPaths == { Rebase(p, sourcePath, destPath) : p \in itemsToMove }
        old(np) == CHOOSE p \in itemsToMove : Rebase(p, sourcePath, destPath) = np
    IN  [x \in ((DOMAIN it) \ itemsToMove) \cup newPaths |->
            IF x \in newPaths THEN Moved(it, old(x), x) ELSE it[x]]

\* dirs[newDir] = true; delete(dirs, dir) for the directories in order
RECURSIVE MoveDirs(_, _, _, _, _)
MoveDirs(ds, ord, i, sourcePath, destPath) ==
    IF i > Len(ord) THEN ds
    ELSE MoveDirs((ds \cup {Rebase(ord[i], sourcePath, destPath)}) \ {ord[i]},
                  ord, i + 1, sourcePath, destPath)

MoveDirectory(sourcePath, destPath) ==
    LET sp == Canon(sourcePath)
        dp == Canon(destPath)
    IN
    IF sp = Root \/ ~isDir(sp) \/ isDir(dp) \/ dp \in DOMAIN items
    THEN Reject
    ELSE LET m1 == ensureDirectoriesExist(Mem(items, dirs), dp)
             itemsToMove == ItemsUnder(m1.items, sp)
             files == FilesUnder(m1.items, sp)
         IN
         \/ /\ MayFail                       \* a store call fails at file k+1
            /\ \E ord \in Perms(files) : \E k \in 0 .. (Len(ord) - 1) :
                  LET prev == MoveEntries(store, m1.items, ord, k, sp, dp)
                      newPath == Rebase(ord[k + 1], sp, dp)
                  IN  \/ /\ store' = prev    \* SetFileEntry fails
                         /\ faults' = faults - 1
                      \/ /\ store' = Del(prev, newPath)  \* delete fails, rolled back
                         /\ faults' = faults - 1
                      \/ /\ faults > 1      \* rollback fails too
                         /\ store' = Put(prev, newPath, m1.items[ord[k + 1]].URL)
                         /\ faults' = faults - 2
            /\ items' = m1.items /\ dirs' = m1.dirs
            /\ err' = TRUE
            /\ Bounded
         \/ /\ \E ord \in Perms(files) :
                  store' = MoveEntries(store, m1.items, ord, Len(ord), sp, dp)
            /\ \E dord \in Orders(DirsUnder(m1.dirs, sp), sp, dp) :
                  LET m2 == Mem(MoveItems(m1.items, itemsToMove, sp, dp),
                                MoveDirs(m1.dirs, dord, 1, sp, dp))
                      m3 == cleanupEmptyDirectories(m2, sp)
                  IN  items' = m3.items /\ dirs' = m3.dirs
            /\ err' = FALSE
            /\ UNCHANGED faults
            /\ Bounded

\* vfs.items[newPath] = newItem for the items in order, each read from the
\* map as it is at that moment
RECURSIVE CopyItems(_, _, _, _, _)
CopyItems(it, ord, i, sourcePath, destPath) ==
    IF i > Len(ord) THEN it
    ELSE LET newPath == Rebase(ord[i], sourcePath, destPath)
         IN  CopyItems(Put(it, newPath, Moved(it, ord[i], newPath)),
                       ord, i + 1, sourcePath, destPath)

\* SetFileEntry(newPath) for every file of S
CopyEntries(st, it, S, sourcePath, destPath) ==
    LET newPaths == { Rebase(p, sourcePath, destPath) : p \in S }
        old(np) == CHOOSE p \in S : Rebase(p, sourcePath, destPath) = np
    IN  [x \in (DOMAIN st) \cup newPaths |->
            IF x \in newPaths THEN it[old(x)].URL ELSE st[x]]

CopyDirectory(sourcePath, destPath) ==
    LET sp == Canon(sourcePath)
        dp == Canon(destPath)
    IN
    IF ~isDir(sp) \/ isDir(dp) \/ dp \in DOMAIN items
    THEN Reject
    ELSE LET m1 == ensureDirectoriesExist(Mem(items, dirs), dp)
             itemsToCopy == ItemsUnder(m1.items, sp)
             files == FilesUnder(m1.items, sp)
         IN
         \/ /\ MayFail                       \* a SetFileEntry fails
            /\ \E done \in (SUBSET files) \ {files} :
                  store' = CopyEntries(store, m1.items, done, sp, dp)
            /\ faults' = faults - 1
            /\ items' = m1.items /\ dirs' = m1.dirs
            /\ err' = TRUE
            /\ Bounded
         \/ /\ store' = CopyEntries(store, m1.items, files, sp, dp)
            /\ \E ord \in Orders(itemsToCopy, sp, dp) :
                  items' = CopyItems(m1.items, ord, 1, sp, dp)
            /\ dirs' = m1.dirs \cup { Rebase(dir, sp, dp) : dir \in DirsUnder(m1.dirs, sp) }
            /\ err' = FALSE
            /\ UNCHANGED faults
            /\ Bounded

(***************************************************************************)
(* Specifications                                                           *)
(***************************************************************************)
\* calls remain; one more call, of operation name
More == calls < MaxCalls
Counted(name, a) ==
    /\ calls' = calls + 1
    /\ op' = name
    /\ args' = IF err' THEN << >> ELSE a
    /\ UNCHANGED <<mutex, pc, call, lin, handler, metadataCache, fileMetadata, bulk, propfind, cacheMutex, server>>

\* any VFS mutation with any arguments; added is the history of SpecAddRemove
DoAddFile ==
    /\ More
    /\ \E p \in RawPaths, u \in URLs :
          /\ AddFile(p, u)
          /\ Counted("AddFile", <<Canon(p)>>)
    /\ UNCHANGED added
DoUpdateFile ==
    /\ More
    /\ \E p \in RawPaths, u \in URLs :
          /\ UpdateFile(p, u)
          /\ Counted("UpdateFile", <<Canon(p)>>)
    /\ UNCHANGED added
DoRemoveFile ==
    /\ More
    /\ \E p \in RawPaths :
          /\ RemoveFile(p)
          /\ Counted("RemoveFile", <<Canon(p)>>)
    /\ UNCHANGED added
DoMoveFile ==
    /\ More
    /\ \E s \in RawPaths, d \in RawPaths :
          /\ MoveFile(s, d)
          /\ Counted("MoveFile", <<Canon(s), Canon(d)>>)
    /\ UNCHANGED added
DoCopyFile ==
    /\ More
    /\ \E s \in RawPaths, d \in RawPaths :
          /\ CopyFile(s, d)
          /\ Counted("CopyFile", <<Canon(s), Canon(d)>>)
    /\ UNCHANGED added
DoRemoveDirectory ==
    /\ More
    /\ \E p \in RawPaths :
          /\ RemoveDirectory(p)
          /\ Counted("RemoveDirectory", <<Canon(p)>>)
    /\ UNCHANGED added
DoMoveDirectory ==
    /\ More
    /\ \E s \in RawPaths, d \in RawPaths :
          /\ MoveDirectory(s, d)
          /\ Counted("MoveDirectory", <<Canon(s), Canon(d)>>)
    /\ UNCHANGED added
DoCopyDirectory ==
    /\ More
    /\ \E s \in RawPaths, d \in RawPaths :
          /\ CopyDirectory(s, d)
          /\ Counted("CopyDirectory", <<Canon(s), Canon(d)>>)
    /\ UNCHANGED added

Next ==
    \/ DoAddFile
    \/ DoUpdateFile
    \/ DoRemoveFile
    \/ DoMoveFile
    \/ DoCopyFile
    \/ DoRemoveDirectory
    \/ DoMoveDirectory
    \/ DoCopyDirectory

\* the store never fails
Spec == Init /\ [][Next]_vars

\* the store fails up to MaxFailures times
InitFaulty ==
    /\ store = EmptyMap
    /\ items = New(EmptyMap).items
    /\ dirs = New(EmptyMap).dirs
    /\ faults = MaxFailures
    /\ calls = 0
    /\ added = {}
    /\ op = "New"
    /\ args = << >>
    /\ err = FALSE
    /\ NoGoroutines
    /\ handler = NoRequest
    /\ metadataCache = NewCache
    /\ fileMetadata = NoMetadata
    /\ bulk = NoBulk
    /\ propfind = NoPropFind
    /\ cacheMutex = [writer |-> "", readers |-> {}]
    /\ server = NoServer

SpecFaulty == InitFaulty /\ [][Next]_vars

\* AddFile and RemoveFile calls only, on a fresh VFS, with the history of the
\* calls that succeeded kept in added
AddFileCall ==
    /\ More
    /\ \E p \in RawPaths, u \in URLs :
          /\ AddFile(p, u)
          /\ added' = IF err' THEN added ELSE added \cup {Canon(p)}
          /\ Counted("AddFile", <<Canon(p)>>)

RemoveFileCall ==
    /\ More
    /\ \E p \in RawPaths :
          /\ RemoveFile(p)
          /\ added' = IF err' THEN added ELSE added \ {Canon(p)}
          /\ Counted("RemoveFile", <<Canon(p)>>)

NextAddRemove ==
    \/ AddFileCall
    \/ RemoveFileCall

SpecAddRemove == InitFaulty /\ [][NextAddRemove]_vars

(***************************************************************************)
(* Vocabulary of the properties                                             *)
(***************************************************************************)
\* every path some part of the state or some caller mentions
AllPaths == Paths \cup (DOMAIN items) \cup dirs \cup (DOMAIN store) \cup added

\* a is a proper ancestor of p
Ancestor(a, p) ==
    /\ a # p
    /\ IF a = Root THEN TRUE ELSE HasPrefix(p, a \o <<"/">>)

\* p is a file of the index it
IsFileIn(it, p) == p \in DOMAIN it /\ ~it[p].IsDir
IsFile(p) == IsFileIn(items, p)

\* the files of the index it as a map path -> url
FileMap(it) == [p \in {q \in DOMAIN it : ~it[q].IsDir} |-> it[p].URL]

(***************************************************************************)
(* C1: for every sequence of AddFile and RemoveFile calls on a fresh VFS,   *)
(* nested paths included, after each call Exists(p) is true iff p is the    *)
(* path of a file whose AddFile succeeded and whose RemoveFile has not      *)
(* since succeeded, or p is an ancestor directory of such a file, or p is   *)
(* "/".                                                                     *)
(***************************************************************************)
C1_ExistsIffAdded ==
    \A p \in AllPaths :
        Exists(p) <=> \/ p \in added
                      \/ \E f \in added : Ancestor(p, f)
                      \/ p = Root

(***************************************************************************)
(* C2: after any sequence of VFS mutations, for every file in the index     *)
(* each proper ancestor path other than "/" exists as a directory: IsDir is *)
(* true and the path is in the directory set.                               *)
(***************************************************************************)
C2_AncestorsAreDirs ==
    \A f \in DOMAIN items :
        ~items[f].IsDir =>
            \A a \in AllPaths :
                (Ancestor(a, f) /\ a # Root) => (IsDir(a) /\ a \in dirs)

(***************************************************************************)
(* C3: in every reachable state no path is both a file and a directory (no  *)
(* non-directory item at a path of the directory set), and a path that is a *)
(* file stays a file until a call removes or moves it.                      *)
(***************************************************************************)
C3_NotFileAndDir ==
    \A p \in DOMAIN items : ~items[p].IsDir => p \notin dirs

\* the calls that remove or move files
Removing == {"RemoveFile", "MoveFile", "RemoveDirectory", "MoveDirectory"}

C3_FileStaysFile ==
    \A p \in DOMAIN items :
        (~items[p].IsDir /\ op' \notin Removing) => IsFileIn(items', p)

C3_OneKind == [](C3_NotFileAndDir) /\ [][C3_FileStaysFile]_vars

(***************************************************************************)
(* C4: after any sequence of VFS operations with any arguments, "/" as a    *)
(* source or destination included, Exists("/") and IsDir("/") are true.     *)
(***************************************************************************)
C4_RootIsDir == Exists(Root) /\ IsDir(Root)

(***************************************************************************)
(* C5: after every VFS mutation that returns success, with a store that     *)
(* does not fail, the (path, url) pairs of GetAllFiles are the file entries *)
(* of the store, and a VFS rebuilt from the store by New gives the same     *)
(* Exists and IsDir answers for every path as the running index.            *)
(***************************************************************************)
C5_MemoryIsStore ==
    (calls > 0 /\ ~err) =>
        /\ GetAllFiles = StoreEntries(store)
        /\ \A p \in AllPaths :
              /\ ExistsIn(New(store), p) <=> Exists(p)
              /\ IsDirIn(New(store), p) <=> IsDir(p)

(***************************************************************************)
(* Steps of one operation, for the properties of single calls               *)
(***************************************************************************)
\* the index after the step
MemAfter == Mem(items', dirs')

\* d has a child item after the step
HasChildAfter(d) == \E c \in DOMAIN items' : Dir(c) = d

\* the directories from the parent of f up to d
Chain(f, d) == { e \in AllPaths : Ancestor(e, f) /\ (e = d \/ Ancestor(d, e)) }

\* the step changes neither the index nor the store
NothingChanged == UNCHANGED <<items, dirs, store>>

(***************************************************************************)
(* C6: when RemoveFile removes a file, each directory above it that is left *)
(* without a child ceases to exist, the parent first and then each ancestor *)
(* that thereby becomes empty, never "/"; a directory that still has        *)
(* another child (file or sub-directory) is kept, as a directory, together  *)
(* with all of its ancestors.                                               *)
(***************************************************************************)
C6_Post(f) ==
    /\ \A d \in AllPaths :
          (Ancestor(d, f) /\ d # Root /\ IsDir(d)) =>
              /\ ExistsIn(MemAfter, d) <=> \E e \in Chain(f, d) : HasChildAfter(e)
              /\ ExistsIn(MemAfter, d) =>
                    /\ IsDirIn(MemAfter, d)
                    /\ \A e \in AllPaths :
                          (Ancestor(e, d) /\ Exists(e)) => ExistsIn(MemAfter, e)
    /\ ExistsIn(MemAfter, Root)

C7_Step(p, u) ==
    LET fp == Canon(p) IN
    IF Exists(fp)
    THEN err' /\ NothingChanged
    ELSE /\ ~err'
         /\ fp \in DOMAIN store' /\ store'[fp] = u
         /\ fp \in DOMAIN items' /\ ~items'[fp].IsDir /\ items'[fp].URL = u
         /\ \A a \in AllPaths : Ancestor(a, fp) => IsDirIn(MemAfter, a)

C7_AddFile ==
    [][ op' = "AddFile" =>
            \A p \in RawPaths, u \in URLs : AddFile(p, u) => C7_Step(p, u) ]_vars

(***************************************************************************)
(* C8: MoveFile(src,dst) and CopyFile(src,dst) return an error whenever src *)
(* is not an existing file or dst already exists (as a file or as a         *)
(* directory).  After a successful MoveFile, dst is a file carrying the url *)
(* src had, src does not exist, and every other file's path and url are     *)
(* unchanged; after a successful CopyFile, src and dst are both files with  *)
(* the same url and every other file is unchanged.                          *)
(***************************************************************************)
\* the files other than those of the set S are the same before and after
OtherFilesUnchanged(S) ==
    \A f \in (DOMAIN items) \cup (DOMAIN items') :
        f \notin S =>
            /\ IsFileIn(items, f) <=> IsFileIn(items', f)
            /\ IsFileIn(items, f) => items'[f].URL = items[f].URL

C8_Errs(s, d) ==
    (~IsFile(Canon(s)) \/ Exists(Canon(d))) => err'

C8_Moved(s, d) ==
    /\ IsFileIn(items', d) /\ items'[d].URL = items[s].URL
    /\ ~ExistsIn(MemAfter, s)
    /\ OtherFilesUnchanged({s, d})

C8_Copied(s, d) ==
    /\ IsFileIn(items', s) /\ IsFileIn(items', d)
    /\ items'[d].URL = items[s].URL /\ items'[s].URL = items[s].URL
    /\ OtherFilesUnchanged({s, d})

C8_MoveCopyFile ==
    [][ /\ op' = "MoveFile" =>
              /\ \A s \in RawPaths, d \in RawPaths : MoveFile(s, d) => C8_Errs(s, d)
              /\ ~err' => C8_Moved(args'[1], args'[2])
        /\ op' = "CopyFile" =>
              /\ \A s \in RawPaths, d \in RawPaths : CopyFile(s, d) => C8_Errs(s, d)
              /\ ~err' => C8_Copied(args'[1], args'[2]) ]_vars

(***************************************************************************)
(* C9: after a successful MoveDirectory(src,dst), every file that was at    *)
(* src+r with url u is a file at dst+r with url u in both memory and store, *)
(* every directory src+r is a directory at dst+r, Exists(src) is false, and *)
(* files outside src are unchanged.                                         *)
(***************************************************************************)
C9_Post(s, d) ==
    /\ \A f \in DOMAIN items :
          (Under(f, s) /\ ~items[f].IsDir) =>
              LET n == d \o SubSeq(f, Len(s) + 1, Len(f))
              IN  /\ IsFileIn(items', n) /\ items'[n].URL = items[f].URL
                  /\ n \in DOMAIN store' /\ store'[n] = items[f].URL
    /\ \A e \in (DOMAIN items) \cup dirs :
          (Under(e, s) /\ IsDir(e)) =>
              IsDirIn(MemAfter, d \o SubSeq(e, Len(s) + 1, Len(e)))
    /\ ~ExistsIn(MemAfter, s)
    /\ \A f \in (DOMAIN items) \cup (DOMAIN items') :
          (~Under(f, s) /\ ~Under(f, d)) =>
              /\ IsFileIn(items, f) <=> IsFileIn(items', f)
              /\ IsFileIn(items, f) => items'[f].URL = items[f].URL

C9_MoveDirectory ==
    [][ (op' = "MoveDirectory" /\ ~err') => C9_Post(args'[1], args'[2]) ]_vars

(***************************************************************************)
(* C10: RemoveDirectory("/"), MoveDirectory("/", dst) and                   *)
(* CopyDirectory("/", dst) each return an error for every dst, and leave    *)
(* the index (items and directory set) and the store unchanged.             *)
(***************************************************************************)
C10_RootRejected ==
    [][ /\ (op' = "RemoveDirectory" /\ RemoveDirectory(Root)) => (err' /\ NothingChanged)
        /\ op' = "MoveDirectory" =>
              \A d \in RawPaths : MoveDirectory(Root, d) => (err' /\ NothingChanged)
        /\ op' = "CopyDirectory" =>
              \A d \in RawPaths : CopyDirectory(Root, d) => (err' /\ NothingChanged) ]_vars

(***************************************************************************)
(* C11: a successful RemoveDirectory(d) removes, from memory and from the   *)
(* store, exactly the files whose path lies under the prefix d+"/"; every   *)
(* file outside that prefix is unchanged, a sibling whose name merely       *)
(* starts with d's name included.                                           *)
(***************************************************************************)
\* f lies under the prefix d + "/"
Beneath(f, d) == HasPrefix(f, d \o <<"/">>)

C11_Post(d) ==
    /\ \A f \in DOMAIN items' : ~items'[f].IsDir => ~Beneath(f, d)
    /\ \A f \in DOMAIN store' : ~Beneath(f, d)
    /\ \A f \in DOMAIN items :
          (~items[f].IsDir /\ ~Beneath(f, d)) =>
              IsFileIn(items', f) /\ items'[f].URL = items[f].URL
    /\ \A f \in DOMAIN store :
          ~Beneath(f, d) => f \in DOMAIN store' /\ store'[f] = store[f]
    /\ \A f \in DOMAIN items' : ~items'[f].IsDir => IsFile(f)
    /\ DOMAIN store' \subseteq DOMAIN store

C11_RemoveDirectory ==
    [][ (op' = "RemoveDirectory" /\ ~err') => C11_Post(args'[1]) ]_vars

(***************************************************************************)
(* VirtualFS.ListDir                                                        *)
(***************************************************************************)
\* strings.ToLower
ToLowerChar(c) == CASE c = "A" -> "a" [] c = "B" -> "b" [] OTHER -> c
ToLower(s) == [i \in 1 .. Len(s) |-> ToLowerChar(s[i])]

\* strings.TrimSuffix
TrimSuffix(s, suffix) ==
    IF Len(s) >= Len(suffix) /\ SubSeq(s, Len(s) - Len(suffix) + 1, Len(s)) = suffix
    THEN SubSeq(s, 1, Len(s) - Len(suffix))
    ELSE s

\* a comparator that orders by lower-cased name alone
lessByName(x, y) == KeyLess(ToLower(x.Name), ToLower(y.Name), 1)

\* the comparator handed to sort.Slice
less(x, y) ==
    IF x.IsDir # y.IsDir THEN x.IsDir
    ELSE KeyLess(ToLower(x.Name), ToLower(y.Name), 1)

\* the slices sort.Slice may leave: no element is less than one before it
Sorted(S) ==
    { ord \in Perms(S) :
        \A i \in 1 .. Len(ord), j \in 1 .. Len(ord) : i < j => ~less(ord[j], ord[i]) }

\* a listing of everything beneath the directory, not only its children
ListDirDeep(dirPath) ==
    IF ~isDir(dirPath) THEN { << >> }
    ELSE Sorted({ items[itemPath] :
                    itemPath \in { q \in DOMAIN items : Under(q, Canon(dirPath)) /\ q # Canon(dirPath) } })

\* the results ListDir may return; nil is << >>
ListDir(dirPath) ==
    IF ~isDir(dirPath) THEN { << >> }
    ELSE LET cleaned == Canon(dirPath)
             dp == IF cleaned # Root THEN TrimSuffix(cleaned, <<"/">>) ELSE cleaned
         IN  Sorted({ items[itemPath] : itemPath \in { q \in DOMAIN items : Dir(q) = dp } })

(***************************************************************************)
(* The VFS over names that differ in case                                   *)
(***************************************************************************)
ListPaths ==
    { Root,
      <<"/", "a">>,
      <<"/", "B">>,
      <<"/", "a", "/", "a">>,
      <<"/", "B", "/", "a">> }

ListAddFile ==
    /\ More
    /\ \E p \in ListPaths, u \in URLs :
          AddFile(p, u) /\ Counted("AddFile", <<Canon(p)>>)
    /\ UNCHANGED added

ListRemoveFile ==
    /\ More
    /\ \E p \in ListPaths :
          RemoveFile(p) /\ Counted("RemoveFile", <<Canon(p)>>)
    /\ UNCHANGED added

ListMoveFile ==
    /\ More
    /\ \E s \in ListPaths, d \in ListPaths :
          MoveFile(s, d) /\ Counted("MoveFile", <<Canon(s), Canon(d)>>)
    /\ UNCHANGED added

ListRemoveDirectory ==
    /\ More
    /\ \E p \in ListPaths :
          RemoveDirectory(p) /\ Counted("RemoveDirectory", <<Canon(p)>>)
    /\ UNCHANGED added

ListMoveDirectory ==
    /\ More
    /\ \E s \in ListPaths, d \in ListPaths :
          MoveDirectory(s, d) /\ Counted("MoveDirectory", <<Canon(s), Canon(d)>>)
    /\ UNCHANGED added

NextListDir ==
    \/ ListAddFile
    \/ ListRemoveFile
    \/ ListMoveFile
    \/ ListRemoveDirectory
    \/ ListMoveDirectory

SpecListDir == Init /\ [][NextListDir]_vars

(***************************************************************************)
(* C12: ListDir(d) on a directory returns exactly the items whose parent is *)
(* d (no deeper descendant and not d itself), all directories before all    *)
(* files and each group in ascending case-insensitive name order; on a path *)
(* that is a file or is absent it returns nil.                              *)
(***************************************************************************)
\* p is a direct child of d
ChildOf(p, d) == Ancestor(d, p) /\ Depth(p) = Depth(d) + 1

\* name s is not after name t, case ignored
NotAfter(s, t) == ~KeyLess(ToLower(t), ToLower(s), 1)

C12_Listing(d, r) ==
    IF IsDir(d)
    THEN /\ { r[i] : i \in 1 .. Len(r) } = { items[p] : p \in { q \in DOMAIN items : ChildOf(q, d) } }
         /\ Len(r) = Cardinality({ q \in DOMAIN items : ChildOf(q, d) })
         /\ \A i \in 1 .. Len(r), j \in 1 .. Len(r) :
               i < j => /\ r[i].IsDir \/ ~r[j].IsDir
                        /\ (r[i].IsDir = r[j].IsDir) => NotAfter(r[i].Name, r[j].Name)
    ELSE r = << >>

C12_ListDir ==
    \A d \in AllPaths \cup ListPaths : \A r \in ListDir(d) : C12_Listing(d, r)

\* "/" lists the file a before the file B, though "B" precedes "a" in bytes
C12_Witness ==
    /\ IsFile(<<"/", "a">>) /\ IsFile(<<"/", "B">>)
    /\ ListDir(Root) = { << items[<<"/", "a">>], items[<<"/", "B">>] >> }

(***************************************************************************)
(* C13: every VFS lookup (Exists, IsDir, GetItem, ListDir) and every VFS    *)
(* mutation canonicalizes its path argument before use, so two spellings of *)
(* the same canonical path give identical results in every state.           *)
(***************************************************************************)
C13_SameLookups ==
    \A p \in RawPaths :
        /\ Exists(p) = Exists(Canon(p))
        /\ IsDir(p) = IsDir(Canon(p))
        /\ GetItem(p) = GetItem(Canon(p))
        /\ ListDir(p) = ListDir(Canon(p))

C13_SameMutations ==
    \A p \in RawPaths, q \in RawPaths, u \in URLs :
        /\ AddFile(p, u) <=> AddFile(Canon(p), u)
        /\ UpdateFile(p, u) <=> UpdateFile(Canon(p), u)
        /\ RemoveFile(p) <=> RemoveFile(Canon(p))
        /\ RemoveDirectory(p) <=> RemoveDirectory(Canon(p))
        /\ MoveFile(p, q) <=> MoveFile(Canon(p), Canon(q))
        /\ CopyFile(p, q) <=> CopyFile(Canon(p), Canon(q))
        /\ MoveDirectory(p, q) <=> MoveDirectory(Canon(p), Canon(q))
        /\ CopyDirectory(p, q) <=> CopyDirectory(Canon(p), Canon(q))

C13_Canonical == [](C13_SameLookups) /\ [][C13_SameMutations]_vars

(***************************************************************************)
(* Concurrent calls: AddFile and MoveFile statement by statement, under     *)
(* VirtualFS.mutex, next to a reader (Exists, IsDir, GetItem, ListDir,      *)
(* GetAllFiles all read under RLock).  The store does not fail here.        *)
(***************************************************************************)
ConcPaths == { <<"/", "a">>, <<"/", "b">>, <<"/", "a", "/", "a">> }
ConcURL == "u1"

\* the callers' variables stay as they are
Quiet == UNCHANGED <<faults, added, op, args, err, handler, metadataCache, fileMetadata, bulk, propfind, cacheMutex, server>>

\* goroutine g goes to label l with the call record c
Goto(g, l, c) ==
    /\ pc' = [pc EXCEPT ![g] = l]
    /\ call' = [call EXCEPT ![g] = c]

\* a Lock that waits for the writer only
CanLockAmongWriters == mutex.writer = ""

\* sync.RWMutex: Lock waits for the writer and the readers to leave,
\* RLock for the writer
CanLock == mutex.writer = "" /\ mutex.readers = {}
CanRLock == mutex.writer = ""

\* files the store or the index holds, and AddFile calls on their way
Pending == { g \in Writers : pc[g] # "idle" /\ call[g].name = "AddFile" }
Room ==
    Cardinality((DOMAIN store) \cup {p \in DOMAIN items : ~items[p].IsDir})
        + Cardinality(Pending) < MaxFiles

\* a goroutine calls AddFile or MoveFile
Invoke(g) ==
    /\ pc[g] = "idle"
    /\ More
    /\ calls' = calls + 1
    /\ \/ /\ Room
          /\ \E p \in ConcPaths :
                Goto(g, "Lock", [NoCall EXCEPT !.name = "AddFile", !.dst = p, !.url = ConcURL])
       \/ \E s \in ConcPaths, d \in ConcPaths :
             Goto(g, "Lock", [NoCall EXCEPT !.name = "MoveFile", !.src = s, !.dst = d])
    /\ UNCHANGED <<items, dirs, store, mutex, lin>>
    /\ Quiet

\* vfs.mutex.Lock(), then the arguments are cleaned
Lock(g) ==
    /\ pc[g] = "Lock"
    /\ CanLock
    /\ mutex' = [mutex EXCEPT !.writer = g]
    /\ Goto(g, "check", [call[g] EXCEPT !.src = IF call[g].name = "MoveFile"
                                                 THEN Canon(call[g].src) ELSE << >>,
                                        !.dst = Canon(call[g].dst)])
    /\ UNCHANGED <<items, dirs, store, calls, lin>>
    /\ Quiet

\* AddFile: the two existence checks
AddFileCheck(g) ==
    /\ pc[g] = "check" /\ call[g].name = "AddFile"
    /\ IF call[g].dst \in DOMAIN items \/ call[g].dst \in dirs
       THEN Goto(g, "Unlock", call[g])
       ELSE Goto(g, "SetFileEntry", [call[g] EXCEPT !.ok = TRUE])
    /\ UNCHANGED <<items, dirs, store, calls, mutex, lin>>
    /\ Quiet

\* AddFile: vfs.store.SetFileEntry(entry)
AddFilePersist(g) ==
    /\ pc[g] = "SetFileEntry" /\ call[g].name = "AddFile"
    /\ store' = Put(store, call[g].dst, call[g].url)
    /\ Goto(g, "addFileToMemory", call[g])
    /\ UNCHANGED <<items, dirs, calls, mutex, lin>>
    /\ Quiet

\* addFileToMemory: vfs.items[filePath] = item; dir := path.Dir(filePath)
AddFileItem(g) ==
    /\ pc[g] = "addFileToMemory"
    /\ items' = Put(items, call[g].dst, FileItem(call[g].dst, call[g].url))
    /\ Goto(g, "parents", [call[g] EXCEPT !.dir = Dir(call[g].dst)])
    /\ UNCHANGED <<dirs, store, calls, mutex, lin>>
    /\ Quiet

\* addFileToMemory: one round of the loop over the parents
AddFileParent(g) ==
    /\ pc[g] = "parents"
    /\ LET dir == call[g].dir IN
       IF dir = Root \/ dir = <<".">>
       THEN /\ Goto(g, "Unlock", call[g])
            /\ UNCHANGED <<items, dirs>>
       ELSE /\ IF dir \notin dirs
               THEN /\ items' = Put(items, dir, DirItem(dir))
                    /\ dirs' = dirs \cup {dir}
               ELSE UNCHANGED <<items, dirs>>
            /\ Goto(g, "parents", [call[g] EXCEPT !.dir = Dir(dir)])
    /\ UNCHANGED <<store, calls, mutex, lin>>
    /\ Quiet

\* MoveFile: the three checks
MoveFileCheck(g) ==
    /\ pc[g] = "check" /\ call[g].name = "MoveFile"
    /\ LET sp == call[g].src
           dp == call[g].dst
       IN  IF sp \notin DOMAIN items \/ items[sp].IsDir \/ dp \in DOMAIN items
           THEN Goto(g, "Unlock", call[g])
           ELSE Goto(g, "ensure", [call[g] EXCEPT !.ok = TRUE,
                                                   !.url = items[sp].URL,
                                                   !.dir = Dir(dp)])
    /\ UNCHANGED <<items, dirs, store, calls, mutex, lin>>
    /\ Quiet

\* ensureDirectoriesExist: one round of the loop
MoveFileEnsure(g) ==
    /\ pc[g] = "ensure"
    /\ LET dir == call[g].dir IN
       IF dir = Root \/ dir = <<".">>
       THEN /\ Goto(g, "SetFileEntry", call[g])
            /\ UNCHANGED <<items, dirs>>
       ELSE /\ IF dir \notin DOMAIN items
               THEN /\ items' = Put(items, dir, DirItem(dir))
                    /\ dirs' = dirs \cup {dir}
               ELSE UNCHANGED <<items, dirs>>
            /\ Goto(g, "ensure", [call[g] EXCEPT !.dir = Dir(dir)])
    /\ UNCHANGED <<store, calls, mutex, lin>>
    /\ Quiet

\* MoveFile: vfs.store.SetFileEntry(newEntry)
MoveFilePersist(g) ==
    /\ pc[g] = "SetFileEntry" /\ call[g].name = "MoveFile"
    /\ store' = Put(store, call[g].dst, call[g].url)
    /\ Goto(g, "DeleteFileEntry", call[g])
    /\ UNCHANGED <<items, dirs, calls, mutex, lin>>
    /\ Quiet

\* MoveFile: vfs.store.DeleteFileEntry(sourcePath)
MoveFileDelete(g) ==
    /\ pc[g] = "DeleteFileEntry"
    /\ store' = Del(store, call[g].src)
    /\ Goto(g, "newItem", call[g])
    /\ UNCHANGED <<items, dirs, calls, mutex, lin>>
    /\ Quiet

\* MoveFile: vfs.items[destPath] = &types.VirtualItem{...}
MoveFileNewItem(g) ==
    /\ pc[g] = "newItem"
    /\ items' = Put(items, call[g].dst, FileItem(call[g].dst, call[g].url))
    /\ Goto(g, "deleteItem", call[g])
    /\ UNCHANGED <<dirs, store, calls, mutex, lin>>
    /\ Quiet

\* MoveFile: delete(vfs.items, sourcePath); cleanup starts at its parent
MoveFileDeleteItem(g) ==
    /\ pc[g] = "deleteItem"
    /\ items' = Del(items, call[g].src)
    /\ Goto(g, "cleanup", [call[g] EXCEPT !.dir = Dir(call[g].src)])
    /\ UNCHANGED <<dirs, store, calls, mutex, lin>>
    /\ Quiet

\* cleanupEmptyDirectories: one round of the loop
MoveFileCleanup(g) ==
    /\ pc[g] = "cleanup"
    /\ LET dir == call[g].dir IN
       IF dir = Root \/ dir = <<".">> \/ \E itemPath \in DOMAIN items : Dir(itemPath) = dir
       THEN /\ Goto(g, "Unlock", call[g])
            /\ UNCHANGED <<items, dirs>>
       ELSE /\ items' = Del(items, dir)
            /\ dirs' = dirs \ {dir}
            /\ Goto(g, "cleanup", [call[g] EXCEPT !.dir = Dir(dir)])
    /\ UNCHANGED <<store, calls, mutex, lin>>
    /\ Quiet

\* the call c run alone on the VFS l
Alone(l, c) ==
    LET m == Mem(l.items, l.dirs) IN
    IF c.name = "AddFile"
    THEN IF ExistsIn(m, c.dst) THEN l
         ELSE LET n == addFileToMemory(m, c.dst, c.url)
              IN  [l EXCEPT !.items = n.items, !.dirs = n.dirs,
                            !.store = Put(l.store, c.dst, c.url)]
    ELSE IF c.src \notin DOMAIN l.items \/ l.items[c.src].IsDir \/ c.dst \in DOMAIN l.items
         THEN l
         ELSE LET url == l.items[c.src].URL
                  m1 == ensureDirectoriesExist(m, c.dst)
                  m2 == Mem(Del(Put(m1.items, c.dst, FileItem(c.dst, url)), c.src), m1.dirs)
                  m3 == cleanupEmptyDirectories(m2, c.src)
              IN  [l EXCEPT !.items = m3.items, !.dirs = m3.dirs,
                            !.store = Del(Put(l.store, c.dst, url), c.src)]

\* the deferred vfs.mutex.Unlock()
Unlock(g) ==
    /\ pc[g] = "Unlock"
    /\ mutex' = [mutex EXCEPT !.writer = ""]
    /\ lin' = [Alone(lin, call[g]) EXCEPT !.last = g]
    /\ Goto(g, "return", call[g])
    /\ UNCHANGED <<items, dirs, store, calls>>
    /\ Quiet

\* the caller has the result
Return(g) ==
    /\ pc[g] = "return"
    /\ Goto(g, "idle", NoCall)
    /\ UNCHANGED <<items, dirs, store, calls, mutex, lin>>
    /\ Quiet

\* a lookup: vfs.mutex.RLock() ... the deferred RUnlock()
RLock(g) ==
    /\ pc[g] = "idle"
    /\ CanRLock
    /\ mutex' = [mutex EXCEPT !.readers = @ \cup {g}]
    /\ Goto(g, "reading", call[g])
    /\ UNCHANGED <<items, dirs, store, calls, lin>>
    /\ Quiet

RUnlock(g) ==
    /\ pc[g] = "reading"
    /\ mutex' = [mutex EXCEPT !.readers = @ \ {g}]
    /\ Goto(g, "idle", call[g])
    /\ UNCHANGED <<items, dirs, store, calls, lin>>
    /\ Quiet

NextConcurrent ==
    \/ \E g \in Writers :
          \/ Invoke(g)
          \/ Lock(g)
          \/ AddFileCheck(g)
          \/ AddFilePersist(g)
          \/ AddFileItem(g)
          \/ AddFileParent(g)
          \/ MoveFileCheck(g)
          \/ MoveFileEnsure(g)
          \/ MoveFilePersist(g)
          \/ MoveFileDelete(g)
          \/ MoveFileNewItem(g)
          \/ MoveFileDeleteItem(g)
          \/ MoveFileCleanup(g)
          \/ Unlock(g)
          \/ Return(g)
    \/ \E g \in Readers :
          \/ RLock(g)
          \/ RUnlock(g)

SpecConcurrent == Init /\ [][NextConcurrent]_vars

(***************************************************************************)
(* C14: under any interleaving of concurrent VFS calls each call takes      *)
(* effect atomically: a reader never observes a partly applied mutation,    *)
(* store and memory change together, and the final index is the one some    *)
(* sequential order of the calls produces.                                  *)
(***************************************************************************)
\* index and store are what the calls made one after the other leave
Whole == items = lin.items /\ dirs = lin.dirs /\ store = lin.store

IsFileWith(p, u) == IsFile(p) /\ items[p].URL = u

\* g is moving a file: the checks passed, and no other call has changed the
\* VFS since
Moving(g) ==
    /\ call[g].name = "MoveFile" /\ call[g].ok
    /\ mutex.writer = g \/ (pc[g] = "return" /\ lin.last = g /\ mutex.writer = "")

C15_SrcOrDst ==
    \A r \in Readers, g \in Writers :
        (pc[r] = "reading" /\ Moving(g)) =>
            IsFileWith(call[g].src, call[g].url) # IsFileWith(call[g].dst, call[g].url)

(***************************************************************************)
(* WebDAVHandler: PROPFIND                                                  *)
(***************************************************************************)
StatusFound == 302
StatusMultiStatus == 207
StatusBadRequest == 400
StatusNotFound == 404
StatusBadGateway == 502

\* values of the Depth header; "" is a request without the header
Depths == {"", "0", "1", "infinity", "2"}

\* strings.HasSuffix
HasSuffix(s, suffix) ==
    /\ Len(s) >= Len(suffix)
    /\ SubSeq(s, Len(s) - Len(suffix) + 1, Len(s)) = suffix

\* getFileMetadata: the record of the url, nil (<< >>) when neither the
\* store nor a HEAD request gives one; resolved are the urls that give one
getFileMetadata(url, resolved) ==
    IF url \in resolved THEN << [URL |-> url] >> ELSE << >>

\* a createResponse that leaves out a file whose metadata is not resolved
createResponseWithMetadata(requestPath, resolved) ==
    IF requestPath \in DOMAIN items /\ ~items[requestPath].IsDir
       /\ getFileMetadata(items[requestPath].URL, resolved) = << >>
    THEN << >>
    ELSE << [Href |-> requestPath, Collection |-> IsDir(requestPath),
             DisplayName |-> Base(requestPath), Metadata |-> << >>] >>

\* createResponse: no response (<< >>) or one
createResponse(requestPath, resolved) ==
    IF requestPath \notin DOMAIN items /\ ~IsDir(requestPath) THEN << >>
    ELSE LET href == IF IsDir(requestPath) /\ ~HasSuffix(requestPath, <<"/">>)
                        /\ requestPath # Root
                     THEN requestPath \o <<"/">>
                     ELSE requestPath
         IN  IF requestPath \in DOMAIN items /\ ~items[requestPath].IsDir
             THEN << [Href |-> href, Collection |-> FALSE,
                      DisplayName |-> items[requestPath].Name,
                      Metadata |-> getFileMetadata(items[requestPath].URL, resolved)] >>
             ELSE << [Href |-> href, Collection |-> TRUE,
                      DisplayName |-> IF Base(requestPath) = Root \/ Base(requestPath) = <<".">>
                                      THEN <<"R", "o", "o", "t">>
                                      ELSE Base(requestPath),
                      Metadata |-> << >>] >>

\* the responses of the children, in the order of the listing
RECURSIVE ChildResponses(_, _, _)
ChildResponses(children, i, resolved) ==
    IF i > Len(children) THEN << >>
    ELSE createResponse(children[i].Path, resolved) \o ChildResponses(children, i + 1, resolved)

\* the answers handlePropFind may give
handlePropFind(requestPath, depthHeader, resolved) ==
    LET normalizedPath == Canon(requestPath)
        depth == IF depthHeader = "" THEN "1" ELSE depthHeader
    IN  IF ~Exists(normalizedPath)
        THEN { [status |-> StatusNotFound, responses |-> << >>] }
        ELSE IF depth # "0" /\ IsDir(normalizedPath)
             THEN { [status |-> StatusMultiStatus,
                     responses |-> createResponse(normalizedPath, resolved)
                                     \o ChildResponses(children, 1, resolved)] :
                    children \in ListDir(normalizedPath) }
             ELSE { [status |-> StatusMultiStatus,
                     responses |-> createResponse(normalizedPath, resolved)] }

(***************************************************************************)
(* C16: in every reachable VFS state PROPFIND with Depth: 0 on an existing  *)
(* path (file, directory or "/") yields a multistatus with exactly one      *)
(* response, and with Depth: 1 on a directory with N direct children        *)
(* exactly N+1 responses, the directory itself first, whether or not the    *)
(* metadata of the files can be resolved.                                   *)
(***************************************************************************)
\* the href under which createResponse reports the path p
HrefOf(p) == IF IsDir(p) /\ p # Root THEN p \o <<"/">> ELSE p

Hrefs(rs) == { rs[i].Href : i \in 1 .. Len(rs) }

Upstreams ==
    { [failed |-> TRUE, status |-> 0, body |-> ""] } \cup
    { [failed |-> FALSE, status |-> st, body |-> "content"] : st \in {200, StatusNotFound} }

\* no Location header, no upstream request, no body
Plain(st) == [status |-> st, location |-> "", requests |-> 0, body |-> ""]

\* proxyContent: one upstream request with the client's method
proxyContent(method, url, upstream) ==
    IF upstream.failed
    THEN [Plain(StatusBadGateway) EXCEPT !.requests = 1]
    ELSE [status |-> upstream.status, location |-> "", requests |-> 1,
          body |-> IF method # "HEAD" THEN upstream.body ELSE ""]

handleGetHead(method, requestPath, useRedirect, upstream) ==
    LET normalizedPath == Canon(requestPath)
        found == GetItem(normalizedPath)
    IN  IF ~found[2] THEN Plain(StatusNotFound)
        ELSE IF found[1].IsDir THEN Plain(StatusBadRequest)
        ELSE IF useRedirect
             THEN [Plain(StatusFound) EXCEPT !.location = found[1].URL]
             ELSE proxyContent(method, found[1].URL, upstream)

(***************************************************************************)
(* C18: GET or HEAD answers 404 when the path does not exist, 400 when the  *)
(* path is a directory (every directory, "/" included), and otherwise       *)
(* delivers the file: in redirect mode a 302 whose Location is the file's   *)
(* url without any upstream request, in proxy mode the upstream response    *)
(* with the body omitted for HEAD.                                          *)
(***************************************************************************)
C18_GetHead ==
    \A method \in {"GET", "HEAD"}, p \in RawPaths \cup AllPaths,
       useRedirect \in BOOLEAN, upstream \in Upstreams :
        LET np == Canon(p)
            a == handleGetHead(method, p, useRedirect, upstream)
        IN  IF ~Exists(np) THEN a.status = StatusNotFound
            ELSE IF IsDir(np) THEN a.status = StatusBadRequest
            ELSE IF useRedirect
                 THEN /\ a.status = StatusFound
                      /\ a.location = items[np].URL
                      /\ a.requests = 0
                 ELSE ~upstream.failed =>
                          /\ a.status = upstream.status
                          /\ a.body = IF method = "HEAD" THEN "" ELSE upstream.body

(***************************************************************************)
(* WebDAVHandler: DELETE, MOVE and COPY                                     *)
(***************************************************************************)
StatusCreated == 201
StatusNoContent == 204
StatusPreconditionFailed == 412
StatusInternalServerError == 500

\* the index of the first "/" of s, 0 when it has none
FirstSlash(s) ==
    IF \E i \in 1..Len(s) : s[i] = "/"
    THEN CHOOSE i \in 1..Len(s) : s[i] = "/" /\ \A j \in 1..(i - 1) : s[j] # "/"
    ELSE 0

\* strings.SplitN(s, "/", n) for n >= 1
RECURSIVE SplitN(_, _)
SplitN(s, n) ==
    IF n = 1 \/ FirstSlash(s) = 0
    THEN <<s>>
    ELSE <<SubSeq(s, 1, FirstSlash(s) - 1)>> \o
         SplitN(SubSeq(s, FirstSlash(s) + 1, Len(s)), n - 1)

Http == <<"h", "t", "t", "p", ":", "/", "/">>
Https == <<"h", "t", "t", "p", "s", ":", "/", "/">>

parseDestinationPath(destination) ==
    IF HasPrefix(destination, Http) \/ HasPrefix(destination, Https)
    THEN LET parts == SplitN(destination, 4)
         IN  IF Len(parts) < 4 THEN Root ELSE <<"/">> \o parts[4]
    ELSE destination

\* Destination headers: none, a bare path, a URL with and without a path
Destinations ==
    {<< >>} \cup RawPaths \cup
    { Http \o <<"h">>, Http \o <<"h", "/", "b">>, Https \o <<"h", "/", "a", "/", "a">> }

\* Overwrite headers: none, T, F
Overwrites == {"", "T", "F"}

\* every Overwrite header counts as T
overwriteAlways(header) == "T"

\* the Overwrite header, T when there is none
overwriteOf(header) == IF header = "" THEN "T" ELSE header

\* the response is written with status st: the request is over
Served(method, st) ==
    /\ calls' = calls + 1
    /\ op' = method
    /\ args' = << >>
    /\ handler' = [NoRequest EXCEPT !.method = method, !.status = st]
    /\ UNCHANGED <<added, mutex, pc, call, lin, metadataCache, fileMetadata, bulk, propfind, cacheMutex, server>>

\* http.Error before any VFS mutation
Refused(method, st) ==
    /\ err' = FALSE
    /\ UNCHANGED <<items, dirs, store, faults>>
    /\ Served(method, st)

\* the destination was removed: the handler goes on to move or copy
Overwritten(method, source, dest) ==
    /\ calls' = calls + 1
    /\ op' = method
    /\ args' = << >>
    /\ handler' = [stage |-> "overwritten", method |-> method, src |-> source,
                   dst |-> dest, status |-> handler.status, header |-> EmptyMap]
    /\ UNCHANGED <<added, mutex, pc, call, lin, metadataCache, fileMetadata, bulk, propfind, cacheMutex, server>>

handleDelete(requestPath) ==
    LET normalizedPath == Canon(requestPath) IN
    IF ~Exists(normalizedPath)
    THEN Refused("DELETE", StatusNotFound)
    ELSE /\ IF IsDir(normalizedPath)
            THEN RemoveDirectory(normalizedPath)
            ELSE RemoveFile(normalizedPath)
         /\ Served("DELETE", IF err' THEN StatusInternalServerError ELSE StatusNoContent)

\* handleMove up to and including its first VFS mutation
handleMove(requestPath, destination, header) ==
    LET normalizedSource == Canon(requestPath)
        normalizedDest == Canon(parseDestinationPath(destination))
        overwrite == overwriteOf(header)
        destExists == Exists(normalizedDest)
    IN
    IF destination = << >>
    THEN Refused("MOVE", StatusBadRequest)
    ELSE IF ~Exists(normalizedSource)
    THEN Refused("MOVE", StatusNotFound)
    ELSE IF destExists /\ overwrite = "F"
    THEN Refused("MOVE", StatusPreconditionFailed)
    ELSE IF destExists /\ overwrite = "T"
    THEN /\ IF IsDir(normalizedDest)
            THEN RemoveDirectory(normalizedDest)
            ELSE RemoveFile(normalizedDest)
         /\ IF err'
            THEN Served("MOVE", StatusInternalServerError)
            ELSE Overwritten("MOVE", normalizedSource, normalizedDest)
    ELSE /\ IF IsDir(normalizedSource)
            THEN MoveDirectory(normalizedSource, normalizedDest)
            ELSE MoveFile(normalizedSource, normalizedDest)
         /\ Served("MOVE", IF err' THEN StatusInternalServerError
                   ELSE IF destExists THEN StatusNoContent ELSE StatusCreated)

\* handleCopy up to and including its first VFS mutation
handleCopy(requestPath, destination, header) ==
    LET normalizedSource == Canon(requestPath)
        normalizedDest == Canon(parseDestinationPath(destination))
        overwrite == overwriteOf(header)
        destExists == Exists(normalizedDest)
    IN
    IF destination = << >>
    THEN Refused("COPY", StatusBadRequest)
    ELSE IF ~Exists(normalizedSource)
    THEN Refused("COPY", StatusNotFound)
    ELSE IF destExists /\ overwrite = "F"
    THEN Refused("COPY", StatusPreconditionFailed)
    ELSE IF destExists /\ overwrite = "T"
    THEN /\ IF IsDir(normalizedDest)
            THEN RemoveDirectory(normalizedDest)
            ELSE RemoveFile(normalizedDest)
         /\ IF err'
            THEN Served("COPY", StatusInternalServerError)
            ELSE Overwritten("COPY", normalizedSource, normalizedDest)
    ELSE /\ IF IsDir(normalizedSource)
            THEN CopyDirectory(normalizedSource, normalizedDest)
            ELSE CopyFile(normalizedSource, normalizedDest)
         /\ Served("COPY", IF err' THEN StatusInternalServerError
                   ELSE IF destExists THEN StatusNoContent ELSE StatusCreated)

\* the rest of handleMove and handleCopy after the destination was removed:
\* the move or the copy, and the response
Replied ==
    /\ op' = handler.method
    /\ args' = << >>
    /\ handler' = [NoRequest EXCEPT !.method = handler.method,
                      !.status = IF err' THEN StatusInternalServerError
                                 ELSE StatusNoContent]
    /\ UNCHANGED <<calls, added, mutex, pc, call, lin, metadataCache, fileMetadata, bulk, propfind, cacheMutex, server>>

finishMove ==
    /\ handler.stage = "overwritten"
    /\ handler.method = "MOVE"
    /\ IF IsDir(handler.src)
       THEN MoveDirectory(handler.src, handler.dst)
       ELSE MoveFile(handler.src, handler.dst)
    /\ Replied

finishCopy ==
    /\ handler.stage = "overwritten"
    /\ handler.method = "COPY"
    /\ IF IsDir(handler.src)
       THEN CopyDirectory(handler.src, handler.dst)
       ELSE CopyFile(handler.src, handler.dst)
    /\ Replied

\* one request is served at a time, MaxRequests in all; files come in by
\* AddFile
Idle == handler.stage = "idle" /\ calls < MaxRequests

Populate == Idle /\ DoAddFile
Delete == Idle /\ \E p \in RawPaths : handleDelete(p)
Move == Idle /\ \E p \in RawPaths, d \in Destinations, h \in Overwrites : handleMove(p, d, h)
Copy == Idle /\ \E p \in RawPaths, d \in Destinations, h \in Overwrites : handleCopy(p, d, h)

NextWebDAV ==
    \/ Populate
    \/ Delete
    \/ Move
    \/ Copy
    \/ finishMove
    \/ finishCopy

SpecWebDAV == Init /\ [][NextWebDAV]_vars

(***************************************************************************)
(* C19: DELETE on an existing file or non-root directory answers 204 and    *)
(* afterwards neither the path nor any path beneath it is in the index or   *)
(* in the store; DELETE on an absent path answers 404 and changes nothing;  *)
(* DELETE on "/" removes nothing.                                           *)
(***************************************************************************)
Gone(d) ==
    \A q \in (DOMAIN items') \cup dirs' \cup (DOMAIN store') : q # d /\ ~Beneath(q, d)

C19_Delete ==
    [][ \A p \in RawPaths :
          (handler.stage = "idle" /\ handleDelete(p)) =>
              IF ~Exists(Canon(p))
              THEN handler'.status = StatusNotFound /\ UNCHANGED <<items, dirs, store>>
              ELSE IF Canon(p) = Root
              THEN UNCHANGED <<items, dirs, store>>
              ELSE handler'.status = StatusNoContent /\ Gone(Canon(p)) ]_vars

(***************************************************************************)
(* C20: a MOVE or COPY with Overwrite: F whose source exists and whose      *)
(* destination already exists answers 412, and the index and the store are  *)
(* exactly as before the request.                                           *)
(***************************************************************************)
\* the cleaned source and the cleaned destination of every request; a request
\* acts through these alone, and cleaning them again changes nothing
Sources == { Canon(p) : p \in RawPaths }
Targets == { Canon(parseDestinationPath(d)) : d \in Destinations \ {<< >>} }

C20_OverwriteF ==
    [][ (handler.stage = "idle" /\ op' \in {"MOVE", "COPY"}) =>
          \A s \in Sources, t \in Targets :
              ( /\ Exists(s)
                /\ Exists(t)
                /\ handleMove(s, t, "F") \/ handleCopy(s, t, "F") ) =>
                  /\ handler'.status = StatusPreconditionFailed
                  /\ handler'.stage = "idle"
                  /\ UNCHANGED <<items, dirs, store>> ]_vars

\* a MOVE was answered 412 and the files /a and /b are both as they were added
C20_Witness ==
    /\ op = "MOVE"
    /\ handler.status = StatusPreconditionFailed
    /\ FileMap(items) = (<<"/", "a">> :> "u1") @@ (<<"/", "b">> :> "u2")
    /\ store = (<<"/", "a">> :> "u1") @@ (<<"/", "b">> :> "u2")

(***************************************************************************)
(* C21: a MOVE or COPY of an existing source with Overwrite T or without an *)
(* Overwrite header answers 201 when the destination did not exist; when it *)
(* existed the destination is first removed and the response is 204; in     *)
(* both cases the destination afterwards holds the source's files with      *)
(* their urls at the corresponding relative paths, the source is gone after *)
(* MOVE and unchanged after COPY.                                           *)
(***************************************************************************)
\* the files at and under s before the step are files at and under t after it
HoldsContent(s, t) ==
    /\ ExistsIn(MemAfter, t)
    /\ \A f \in DOMAIN items :
          (Under(f, s) /\ ~items[f].IsDir) =>
              /\ IsFileIn(items', Rebase(f, s, t))
              /\ items'[Rebase(f, s, t)].URL = items[f].URL

SourceGone(s) == ~ExistsIn(MemAfter, s)

SourceKept(s) ==
    /\ ExistsIn(MemAfter, s)
    /\ \A f \in DOMAIN items :
          (Under(f, s) /\ ~items[f].IsDir) =>
              IsFileIn(items', f) /\ items'[f].URL = items[f].URL

\* what the first step of a request owes: the whole request when the
\* destination is free, the removal of the destination when it is not
C21_First(s, t, after) ==
    IF Exists(t)
    THEN handler'.stage = "overwritten" /\ ~ExistsIn(MemAfter, t)
    ELSE /\ handler'.stage = "idle"
         /\ handler'.status = StatusCreated
         /\ HoldsContent(s, t)
         /\ after

C21_Replaced(after) ==
    /\ handler'.status = StatusNoContent
    /\ HoldsContent(handler.src, handler.dst)
    /\ after

C21_Overwrite ==
    [][ /\ (handler.stage = "idle" /\ op' \in {"MOVE", "COPY"}) =>
              \A s \in Sources, t \in Targets, h \in {"", "T"} :
                  Exists(s) =>
                      /\ handleMove(s, t, h) => C21_First(s, t, SourceGone(s))
                      /\ handleCopy(s, t, h) => C21_First(s, t, SourceKept(s))
        /\ finishMove => C21_Replaced(SourceGone(handler.src))
        /\ finishCopy => C21_Replaced(SourceKept(handler.src)) ]_vars

(***************************************************************************)
(* C22: a VFS mutation changes nothing in the in-memory index (items or     *)
(* directory set) before its store write has succeeded: when a call fails   *)
(* on a store write and no store write of it took effect, items and dirs    *)
(* are as they were before the call.                                        *)
(***************************************************************************)
C22_PersistFirst ==
    [][ (err' /\ faults' < faults /\ store' = store) =>
            UNCHANGED <<items, dirs>> ]_vars

(***************************************************************************)
(* MetadataCache                                                            *)
(***************************************************************************)
CacheURLs == {"u1", "u2", "u3"}
\* the sizes a FileMetadata may carry
Sizes == {1, 2}

\* the steps of the cache leave the VFS, the store and the handler alone
CacheOnly ==
    UNCHANGED <<items, dirs, store, faults, calls, added, op, args, err, mutex, pc, call,
                lin, handler, fileMetadata, bulk, propfind, cacheMutex, server>>

\* the period of the cleanup ticker
Period == TTL \div 2

\* time.Since(metadata.CachedAt) > c.ttl at time now
Expired(metadata, now) == now - metadata.CachedAt > TTL

\* Get without the expiry test
GetStored(url) ==
    IF url \notin DOMAIN metadataCache.cache
    THEN << >>
    ELSE <<metadataCache.cache[url]>>

\* Get: << >> for nil, <<metadata>> otherwise
Get(url) ==
    IF url \notin DOMAIN metadataCache.cache
    THEN << >>
    ELSE IF Expired(metadataCache.cache[url], metadataCache.now)
         THEN << >>
         ELSE <<metadataCache.cache[url]>>

Size == Cardinality(DOMAIN metadataCache.cache)

\* the loop of evictOldest over the keys in the order ord, from its i-th
\* key on, with oldestKey and oldestTime as they stand
RECURSIVE OldestKey(_, _, _, _, _)
OldestKey(c, ord, i, oldestKey, oldestTime) ==
    IF i > Len(ord) THEN oldestKey
    ELSE IF oldestKey = "" \/ c[ord[i]].CachedAt < oldestTime
         THEN OldestKey(c, ord, i + 1, ord[i], c[ord[i]].CachedAt)
         ELSE OldestKey(c, ord, i + 1, oldestKey, oldestTime)

\* an eviction that removes nothing
evictNothing(c) == {c}

\* evictOldest: the maps it may leave, one for every order of the iteration
evictOldest(c) ==
    { LET oldestKey == OldestKey(c, ord, 1, "", 0)
      IN  IF oldestKey # "" THEN Del(c, oldestKey) ELSE c : ord \in Perms(DOMAIN c) }

\* removeExpired at time now
removeExpired(c, now) ==
    [key \in {k \in DOMAIN c : ~Expired(c[k], now)} |-> c[key]]

Set(url, size) ==
    /\ \E evicted \in (IF Size >= MaxSize
                       THEN evictOldest(metadataCache.cache)
                       ELSE {metadataCache.cache}) :
          LET metadata == [Size |-> size, CachedAt |-> metadataCache.now]
          IN  metadataCache' =
                  [metadataCache EXCEPT
                      !.cache = Put(evicted, url, metadata),
                      !.set = Put(@, url, metadata),
                      !.dropped = (@ \cup ((DOMAIN metadataCache.cache) \ DOMAIN evicted))
                                  \ {url}]
    /\ CacheOnly

Clear ==
    /\ metadataCache' = [metadataCache EXCEPT !.cache = EmptyMap,
                                              !.dropped = DOMAIN metadataCache.set]
    /\ CacheOnly

Close ==
    /\ metadataCache' = [metadataCache EXCEPT !.cancelled = TRUE]
    /\ CacheOnly

\* time passes; the ticker puts a tick in its channel every Period unless
\* one is waiting there, until the cleanup goroutine has stopped it
Tick ==
    /\ metadataCache.now < MaxTime
    /\ metadataCache' =
          [metadataCache EXCEPT
              !.now = @ + 1,
              !.tick = \/ @
                       \/ /\ metadataCache.cleanup # "returned"
                          /\ (metadataCache.now + 1) % Period = 0]
    /\ CacheOnly

\* cleanup: the select receives from ticker.C
cleanupTick ==
    /\ metadataCache.cleanup = "select"
    /\ metadataCache.tick
    /\ metadataCache' = [metadataCache EXCEPT !.tick = FALSE, !.cleanup = "removeExpired"]
    /\ CacheOnly

\* cleanup: removeExpired runs under the lock
cleanupRemoveExpired ==
    /\ metadataCache.cleanup = "removeExpired"
    /\ metadataCache' =
          [metadataCache EXCEPT
              !.cache = removeExpired(@, metadataCache.now),
              !.cleanup = "select"]
    /\ CacheOnly

\* cleanup: the select receives from ctx.Done(); the deferred ticker.Stop()
cleanupDone ==
    /\ metadataCache.cleanup = "select"
    /\ metadataCache.cancelled
    /\ metadataCache' = [metadataCache EXCEPT !.cleanup = "returned"]
    /\ CacheOnly

SetCall == \E url \in CacheURLs, size \in Sizes : Set(url, size)

NextCache ==
    \/ SetCall
    \/ Clear
    \/ Close
    \/ Tick
    \/ cleanupTick
    \/ cleanupRemoveExpired
    \/ cleanupDone

SpecCache == Init /\ [][NextCache]_vars

(***************************************************************************)
(* C23: Get(url) returns the metadata most recently Set for url when        *)
(* now - cachedAt <= ttl, and nil when url was never set, was cleared or    *)
(* evicted since, or has expired, whether or not a sweep has run.           *)
(***************************************************************************)
C23_Get ==
    \A url \in CacheURLs :
        Get(url) =
            IF /\ url \in DOMAIN metadataCache.set
               /\ url \notin metadataCache.dropped
               /\ metadataCache.now - metadataCache.set[url].CachedAt <= TTL
            THEN <<metadataCache.set[url]>>
            ELSE << >>

\* an expired entry no sweep has removed yet is not returned, next to a fresh
\* entry that is
C23_Witness ==
    /\ "u1" \in DOMAIN metadataCache.cache
    /\ Get("u1") = << >>
    /\ Get("u2") = <<[Size |-> 2, CachedAt |-> metadataCache.now]>>

(***************************************************************************)
(* C24: after any sequence of Set, Clear and sweep steps Size() never       *)
(* exceeds maxSize; a Set made at capacity removes exactly one entry, one   *)
(* with the smallest cachedAt, and the entry just set is retrievable; Clear *)
(* leaves Size() = 0.                                                       *)
(***************************************************************************)
\* k is an entry of c with the smallest cachedAt
IsOldest(c, k) ==
    k \in DOMAIN c /\ \A j \in DOMAIN c : c[k].CachedAt <= c[j].CachedAt

C24_SetAtCapacity(url) ==
    /\ \E k \in DOMAIN metadataCache.cache :
          /\ IsOldest(metadataCache.cache, k)
          /\ DOMAIN metadataCache'.cache = ((DOMAIN metadataCache.cache) \ {k}) \cup {url}
    /\ \A j \in (DOMAIN metadataCache'.cache) \ {url} :
          metadataCache'.cache[j] = metadataCache.cache[j]
    /\ Get(url)' # << >>
    /\ Get(url)' = <<metadataCache'.set[url]>>

C25_SweepExact ==
    cleanupRemoveExpired =>
        /\ \A k \in DOMAIN metadataCache.cache :
              k \in DOMAIN metadataCache'.cache
                  <=> metadataCache.now - metadataCache.cache[k].CachedAt <= TTL
        /\ \A k \in DOMAIN metadataCache'.cache :
              metadataCache'.cache[k] = metadataCache.cache[k]

C25_NoSweepAfterClose ==
    metadataCache.cancelled =>
        ~(metadataCache.cleanup = "select" /\ metadataCache'.cleanup = "removeExpired")

C25_Sweep ==
    /\ [][C25_SweepExact]_vars
    /\ [][C25_NoSweepAfterClose]_vars
    /\ [](ENABLED Close)

(***************************************************************************)
(* WebDAVHandler: metadata resolution                                       *)
(***************************************************************************)
\* what the remote answers to a HEAD: the request fails, or a status with
\* the Content-Length and Last-Modified headers
ContentLengths == {"", "7", "x"}
LastModifieds == {"", "Mon, 02 Jan 2006 15:04:05 GMT", "yesterday"}
Heads ==
    { [failed |-> TRUE, status |-> 0, contentLength |-> "", lastModified |-> ""] } \cup
    { [failed |-> FALSE, status |-> st, contentLength |-> cl, lastModified |-> lm] :
        st \in {200, StatusNotFound}, cl \in ContentLengths, lm \in LastModifieds }

\* strconv.ParseInt(contentLength, 10, 64): << >> for an error
ParseInt(str) == IF str = "7" THEN <<7>> ELSE << >>

\* time.Parse(time.RFC1123, lastModified): << >> for an error
ParseTime(str) == IF str = "Mon, 02 Jan 2006 15:04:05 GMT" THEN <<"2006-01-02T15:04:05Z">> ELSE << >>

\* time.Now()
Now == "now"

\* the FileMetadata parsed from the answer to a HEAD
parseMetadata(url, resp) ==
    [URL |-> url,
     Size |-> IF resp.contentLength # "" /\ ParseInt(resp.contentLength) # << >>
              THEN ParseInt(resp.contentLength)[1] ELSE 0,
     LastModified |-> IF resp.lastModified # "" /\ ParseTime(resp.lastModified) # << >>
                      THEN ParseTime(resp.lastModified)[1] ELSE Now]

\* the properties createResponse gives a file from its metadata
fileProp(found) ==
    IF found # << >>
    THEN [ContentLength |-> <<found[1].Size>>,
          LastModified |-> <<found[1].LastModified>>,
          ETag |-> <<found[1].URL, found[1].LastModified>>]
    ELSE [ContentLength |-> << >>, LastModified |-> << >>, ETag |-> << >>]

\* the resolution is over: found is what getFileMetadata returns
Resolved(url, found, st, heads) ==
    /\ fileMetadata' = [store |-> st, heads |-> heads,
                        last |-> [url |-> url, head |-> heads # fileMetadata.heads,
                                  metadata |-> found, prop |-> <<fileProp(found)>>]]
    /\ UNCHANGED <<items, dirs, store, faults, calls, added, op, args, err, mutex, pc, call,
                   lin, handler, metadataCache, bulk, propfind, cacheMutex, server>>

\* a resolution that asks the remote every time
resolveRemotely(url, resp) ==
    /\ fileMetadata.heads[url] < MaxHeads
    /\ LET heads == [fileMetadata.heads EXCEPT ![url] = @ + 1] IN
       IF resp.failed \/ resp.status # 200
       THEN Resolved(url, << >>, fileMetadata.store, heads)
       ELSE Resolved(url, <<parseMetadata(url, resp)>>,
                     Put(fileMetadata.store, url, parseMetadata(url, resp)), heads)

\* createResponse of a file of url url: getFileMetadata, the remote
\* answering resp when asked, and the properties of the response
resolve(url, resp) ==
    IF url \in DOMAIN fileMetadata.store
    THEN Resolved(url, <<fileMetadata.store[url]>>, fileMetadata.store, fileMetadata.heads)
    ELSE /\ fileMetadata.heads[url] < MaxHeads
         /\ LET heads == [fileMetadata.heads EXCEPT ![url] = @ + 1] IN
            IF resp.failed \/ resp.status # 200
            THEN Resolved(url, << >>, fileMetadata.store, heads)
            ELSE Resolved(url, <<parseMetadata(url, resp)>>,
                          Put(fileMetadata.store, url, parseMetadata(url, resp)), heads)

Resolve == \E url \in URLs, resp \in Heads : resolve(url, resp)

\* RemoveFile and RemoveDirectory delete the metadata record of a removed
\* file's url
DeleteFileMetadata ==
    /\ \E url \in DOMAIN fileMetadata.store :
          fileMetadata' = [fileMetadata EXCEPT !.store = Del(@, url)]
    /\ UNCHANGED <<items, dirs, store, faults, calls, added, op, args, err, mutex, pc, call,
                   lin, handler, metadataCache, bulk, propfind, cacheMutex, server>>

NextMetadata ==
    \/ Resolve
    \/ DeleteFileMetadata

SpecMetadata == Init /\ [][NextMetadata]_vars

(***************************************************************************)
(* C26: metadata resolution for a file url consults the store first: when a *)
(* record exists no HEAD is issued and the record is used; on a miss one    *)
(* HEAD is issued and, if it answers 200, the parsed size and last-modified *)
(* are persisted, so that the resolutions that follow are served from the   *)
(* store without a HEAD for as long as the record is there; if the HEAD     *)
(* fails or answers another status nothing is persisted and the response is *)
(* emitted without length, last-modified and etag.                          *)
(***************************************************************************)
C26_Parsed(url, resp) ==
    [URL |-> url,
     Size |-> IF resp.contentLength = "7" THEN 7 ELSE 0,
     LastModified |-> IF resp.lastModified = "Mon, 02 Jan 2006 15:04:05 GMT"
                      THEN "2006-01-02T15:04:05Z" ELSE Now]

C26_Step(url, resp) ==
    LET before == fileMetadata.store
        after == fileMetadata'.store
        last == fileMetadata'.last
        issued == fileMetadata'.heads[url] - fileMetadata.heads[url]
    IN
    /\ \A u \in URLs \ {url} : fileMetadata'.heads[u] = fileMetadata.heads[u]
    /\ Len(last.prop) = 1
    /\ IF url \in DOMAIN before
       THEN /\ issued = 0
            /\ last.metadata = <<before[url]>>
            /\ last.prop[1].ContentLength = <<before[url].Size>>
            /\ after = before
       ELSE /\ issued = 1
            /\ IF ~resp.failed /\ resp.status = 200
               THEN /\ after = Put(before, url, C26_Parsed(url, resp))
                    /\ last.metadata = <<C26_Parsed(url, resp)>>
                    /\ last.prop[1].ContentLength = <<C26_Parsed(url, resp).Size>>
               ELSE /\ after = before
                    /\ last.metadata = << >>
                    /\ last.prop[1] =
                          [ContentLength |-> << >>, LastModified |-> << >>, ETag |-> << >>]

RequestOnly ==
    UNCHANGED <<items, dirs, store, calls, lin, faults, added, op, args, err, handler,
                metadataCache, bulk, propfind, cacheMutex, server>>

\* the paths requested
RequestPaths == { <<"/", "a">>, <<"/", "b">> }

\* PROPFIND (createResponse) and GET (handleGetHead) begin with GetItem:
\* vfs.mutex.RLock()
requestRLock(q) ==
    /\ pc[q] = "idle"
    /\ CanRLock
    /\ mutex' = [mutex EXCEPT !.readers = @ \cup {q}]
    /\ \E method \in {"PROPFIND", "GET"}, p \in RequestPaths :
          Goto(q, "GetItem", [NoCall EXCEPT !.name = method, !.src = p])
    /\ RequestOnly /\ UNCHANGED fileMetadata

\* GetItem reads the item under the lock
requestGetItem(q) ==
    /\ pc[q] = "GetItem"
    /\ LET found == GetItem(call[q].src) IN
       Goto(q, "RUnlock",
            [call[q] EXCEPT !.ok = found[2] /\ ~found[1].IsDir,
                            !.url = IF found[2] THEN found[1].URL ELSE ""])
    /\ RequestOnly /\ UNCHANGED <<mutex, fileMetadata>>

\* a request that goes on to the remote with the lock held
requestKeepLock(q) ==
    /\ pc[q] = "RUnlock"
    /\ IF ~call[q].ok
       THEN Goto(q, "idle", NoCall) /\ mutex' = [mutex EXCEPT !.readers = @ \ {q}]
       ELSE /\ Goto(q, IF call[q].name = "PROPFIND" THEN "getFileMetadata" ELSE "upstream",
                    call[q])
            /\ UNCHANGED mutex
    /\ RequestOnly /\ UNCHANGED fileMetadata

\* the deferred vfs.mutex.RUnlock() of GetItem; a file goes on to its
\* metadata (PROPFIND) or to proxyContent (GET), whose client.Do is in flight
\* from here
requestRUnlock(q) ==
    /\ pc[q] = "RUnlock"
    /\ mutex' = [mutex EXCEPT !.readers = @ \ {q}]
    /\ IF ~call[q].ok
       THEN Goto(q, "idle", NoCall)
       ELSE Goto(q, IF call[q].name = "PROPFIND" THEN "getFileMetadata" ELSE "upstream",
                 call[q])
    /\ RequestOnly /\ UNCHANGED fileMetadata

\* getFileMetadata: the store first, then the HEAD request, in flight from here
requestGetFileMetadata(q) ==
    /\ pc[q] = "getFileMetadata"
    /\ IF call[q].url \in DOMAIN fileMetadata.store
       THEN Goto(q, "idle", NoCall) /\ UNCHANGED fileMetadata
       ELSE /\ fileMetadata.heads[call[q].url] < MaxHeads
            /\ fileMetadata' = [fileMetadata EXCEPT !.heads[call[q].url] = @ + 1]
            /\ Goto(q, "HEAD", call[q])
    /\ RequestOnly /\ UNCHANGED mutex

\* the remote answers the HEAD, or the request times out
requestHead(q) ==
    /\ pc[q] = "HEAD"
    /\ \E resp \in { r \in Heads : r.contentLength = "7" /\ r.lastModified = "" } :
          fileMetadata' =
              [fileMetadata EXCEPT
                  !.store = IF resp.failed \/ resp.status # 200 THEN @
                            ELSE Put(@, call[q].url, parseMetadata(call[q].url, resp))]
    /\ Goto(q, "idle", NoCall)
    /\ RequestOnly /\ UNCHANGED mutex

\* the upstream answers the proxied request, or it fails
requestUpstream(q) ==
    /\ pc[q] = "upstream"
    /\ Goto(q, "idle", NoCall)
    /\ RequestOnly /\ UNCHANGED <<mutex, fileMetadata>>

\* the steps of a goroutine that mutates the VFS
Mutation(g) ==
    \/ Invoke(g)
    \/ Lock(g)
    \/ AddFileCheck(g)
    \/ AddFilePersist(g)
    \/ AddFileItem(g)
    \/ AddFileParent(g)
    \/ MoveFileCheck(g)
    \/ MoveFileEnsure(g)
    \/ MoveFilePersist(g)
    \/ MoveFileDelete(g)
    \/ MoveFileNewItem(g)
    \/ MoveFileDeleteItem(g)
    \/ MoveFileCleanup(g)
    \/ Unlock(g)
    \/ Return(g)

NextRemote ==
    \/ Mutation("w1")
    \/ \E q \in Requests :
          \/ requestRLock(q)
          \/ requestGetItem(q)
          \/ requestRUnlock(q)
          \/ requestGetFileMetadata(q)
          \/ requestHead(q)
          \/ requestUpstream(q)

SpecRemote == Init /\ [][NextRemote]_vars

(***************************************************************************)
(* C27: no request holds the VFS lock, shared or exclusive, while its HEAD  *)
(* or its proxied upstream request is in flight, so that a mutation waiting *)
(* for the lock can take it when every request is at its remote; two        *)
(* requests for the same url without a record may both have a HEAD in       *)
(* flight.                                                                  *)
(***************************************************************************)
InFlight(q) == pc[q] \in {"HEAD", "upstream"}

C27_NoLockInFlight ==
    /\ \A q \in Requests :
          InFlight(q) => (q \notin mutex.readers /\ mutex.writer # q)
    /\ (pc["w1"] = "Lock" /\ \A q \in Requests : InFlight(q)) => ENABLED Lock("w1")

\* both requests have their own HEAD for u1 in flight while the mutation
\* holds the lock
C27_Witness ==
    /\ pc["q1"] = "HEAD" /\ pc["q2"] = "HEAD"
    /\ call["q1"].url = "u1" /\ call["q2"].url = "u1"
    /\ fileMetadata.heads["u1"] = 2
    /\ mutex.writer = "w1"

(***************************************************************************)
(* C28: in proxy mode a GET or HEAD of a file whose upstream request fails  *)
(* or whose upstream answers a status outside 200..299 is answered 502, and *)
(* the upstream receives at most one request.                               *)
(***************************************************************************)
C28_BadGateway ==
    \A method \in {"GET", "HEAD"}, p \in DOMAIN items, upstream \in Upstreams :
        ~items[p].IsDir =>
            LET a == handleGetHead(method, p, FALSE, upstream) IN
            /\ a.requests <= 1
            /\ (upstream.failed \/ upstream.status \notin 200..299) =>
                   a.status = StatusBadGateway

(***************************************************************************)
(* REST API: POST /api/files/bulk                                           *)
(***************************************************************************)
StatusOK == 200
StatusPartialContent == 206

\* the operations, paths and urls a bulk payload may carry
BulkOperations == {"add", "remove", "move"}
BulkPaths == { << >>, <<"/", "a">>, <<"a", "/">> }
BulkURLs == { << >>, Http \o <<"x">>, <<"f", "t", "p", ":", "/", "/", "x">> }
FileEntries == [Path : BulkPaths, URL : BulkURLs]
BulkFiles == UNION { [1..n -> FileEntries] : n \in 0..MaxBulk }

\* the error of an entry, "" for nil
validateFileEntry(file) ==
    IF file.Path = << >> THEN "path is required"
    ELSE IF file.URL = << >> THEN "url is required"
    ELSE IF ~HasPrefix(file.URL, Http) /\ ~HasPrefix(file.URL, Https)
         THEN "url must be a valid HTTP or HTTPS URL"
         ELSE ""

\* a response that is 200 whatever failed
bulkStatusOK(failed) == StatusOK

\* the status of the response of a bulk request
bulkStatus(failed) == IF failed = 0 THEN StatusOK ELSE StatusPartialContent

\* the steps of a bulk request change nothing else
BulkOnly ==
    UNCHANGED <<added, op, args, mutex, pc, call, lin, handler, metadataCache,
                fileMetadata, propfind, cacheMutex, server>>

\* the payload is decoded and the operation checked
bulkDecode ==
    /\ bulk.stage \in {"idle", "done"}
    /\ calls < MaxRequests
    /\ calls' = calls + 1
    /\ \E operation \in BulkOperations, files \in BulkFiles :
          bulk' = IF operation \notin {"add", "remove"}
                  THEN [NoBulk EXCEPT !.stage = "done", !.operation = operation,
                                      !.status = StatusBadRequest]
                  ELSE [NoBulk EXCEPT !.stage = "loop", !.operation = operation,
                                      !.files = files]
    /\ UNCHANGED <<items, dirs, store, faults, err>>
    /\ BulkOnly

\* one iteration of the loop over operation.Files
bulkItem ==
    /\ bulk.stage = "loop"
    /\ bulk.i <= Len(bulk.files)
    /\ LET file == bulk.files[bulk.i] IN
       IF validateFileEntry(file) # ""
       THEN /\ bulk' = [bulk EXCEPT !.i = @ + 1, !.failed = @ + 1]
            /\ UNCHANGED <<items, dirs, store, faults, err>>
       ELSE /\ IF bulk.operation = "add"
               THEN AddFile(Canon(file.Path), file.URL)
               ELSE RemoveFile(Canon(file.Path))
            /\ bulk' = IF err'
                       THEN [bulk EXCEPT !.i = @ + 1, !.failed = @ + 1]
                       ELSE [bulk EXCEPT !.i = @ + 1, !.successful = @ + 1]
    /\ UNCHANGED calls
    /\ BulkOnly

\* the loop is over: the counts are reported
bulkReply ==
    /\ bulk.stage = "loop"
    /\ bulk.i > Len(bulk.files)
    /\ bulk' = [bulk EXCEPT !.stage = "done", !.status = bulkStatus(bulk.failed)]
    /\ UNCHANGED <<items, dirs, store, faults, err, calls>>
    /\ BulkOnly

NextBulk == bulkDecode \/ bulkItem \/ bulkReply

SpecBulk == InitFaulty /\ [][NextBulk]_vars

(***************************************************************************)
(* C29: a bulk request processes every submitted item in order, a failed    *)
(* item changes nothing and does not stop the loop, a successful item is    *)
(* one whose VFS operation took effect; when the response is written,       *)
(* successful + failed is the number of submitted items and the status is   *)
(* 200 exactly when failed = 0.                                             *)
(***************************************************************************)
C29_Counts ==
    bulk.stage \in {"loop", "done"} /\ bulk.status # StatusBadRequest =>
        /\ bulk.successful + bulk.failed = bulk.i - 1
        /\ bulk.stage = "done" =>
              /\ bulk.successful + bulk.failed = Len(bulk.files)
              /\ bulk.status = StatusOK <=> bulk.failed = 0

C29_Effect ==
    LET file == bulk.files[bulk.i]
        fp == Canon(file.Path)
    IN  IF bulk.operation = "add"
        THEN fp \in DOMAIN store' /\ store'[fp] = file.URL /\ fp \notin DOMAIN store
        ELSE fp \notin DOMAIN store' /\ fp \in DOMAIN store

C29_Item ==
    bulkItem =>
        /\ bulk'.stage = "loop" /\ bulk'.files = bulk.files /\ bulk'.i = bulk.i + 1
        /\ \/ /\ bulk'.successful = bulk.successful + 1
              /\ bulk'.failed = bulk.failed
              /\ C29_Effect
           \/ /\ bulk'.failed = bulk.failed + 1
              /\ bulk'.successful = bulk.successful
              /\ UNCHANGED <<items, dirs, store>>

StatusMethodNotAllowed == 405

\* the methods of the requests
Methods ==
    {"OPTIONS", "PROPFIND", "GET", "HEAD", "DELETE", "MOVE", "COPY",
     "PUT", "MKCOL", "LOCK", "options"}

\* the paths and the Destination headers of the requests
ServePaths == { Root, <<"/", "a">>, <<"a", "/">>, <<"/", "a", "/", "a">> }
ServeDestinations ==
    { << >>, <<"/", "a">>, <<"/", "b">>, Http \o <<"h", "/", "b">> }

\* an Allow header that also names PUT
AllowWithPut == <<"OPTIONS", "PROPFIND", "GET", "HEAD", "DELETE", "MOVE", "COPY", "PUT">>

\* the Allow header of handleOptions, as the list of the methods it names
Allow == <<"OPTIONS", "PROPFIND", "GET", "HEAD", "DELETE", "MOVE", "COPY">>

\* the response is written by a handler that calls no VFS mutation
Answered(method, st, header) ==
    /\ calls' = calls + 1
    /\ op' = method
    /\ args' = << >>
    /\ err' = FALSE
    /\ handler' = [NoRequest EXCEPT !.method = method, !.status = st, !.header = header]
    /\ UNCHANGED <<items, dirs, store, faults>>
    /\ UNCHANGED <<added, mutex, pc, call, lin, metadataCache, bulk, propfind, cacheMutex, server>>

handleOptions ==
    /\ Answered("OPTIONS", StatusOK, [Allow |-> Allow, DAV |-> "1", MSAuthorVia |-> "DAV"])
    /\ UNCHANGED fileMetadata

\* the answer of a remote that answers the HEAD requests of a PROPFIND
GoodHead ==
    [failed |-> FALSE, status |-> 200, contentLength |-> "7",
     lastModified |-> "Mon, 02 Jan 2006 15:04:05 GMT"]

\* PROPFIND: the multistatus of handlePropFind; the metadata of the files it
\* names is resolved, a record the store does not hold is asked of the remote
\* and persisted when the remote answers
servePropFind(requestPath, depthHeader, ok) ==
    LET resolved == IF ok THEN URLs ELSE DOMAIN fileMetadata.store IN
    \E a \in handlePropFind(requestPath, depthHeader, resolved) :
        LET files == { i \in 1..Len(a.responses) : ~a.responses[i].Collection }
            asked == { items[a.responses[i].Href].URL : i \in files }
            fresh == asked \ DOMAIN fileMetadata.store
        IN  /\ \A u \in fresh : fileMetadata.heads[u] < MaxHeads
            /\ fileMetadata' =
                  [fileMetadata EXCEPT
                     !.heads = [u \in DOMAIN @ |-> IF u \in fresh THEN @[u] + 1 ELSE @[u]],
                     !.store = IF ok
                               THEN [u \in (DOMAIN @) \cup fresh |->
                                       IF u \in DOMAIN @ THEN @[u]
                                       ELSE parseMetadata(u, GoodHead)]
                               ELSE @]
            /\ Answered("PROPFIND", a.status, EmptyMap)

serveGetHead(method, requestPath, useRedirect, upstream) ==
    /\ Answered(method, handleGetHead(method, requestPath, useRedirect, upstream).status,
                EmptyMap)
    /\ UNCHANGED fileMetadata

ServeHTTP(method) ==
    CASE method = "OPTIONS" -> handleOptions
      [] method = "PROPFIND" ->
            \E p \in ServePaths, depth \in Depths, ok \in BOOLEAN : servePropFind(p, depth, ok)
      [] method \in {"GET", "HEAD"} ->
            \E p \in ServePaths, useRedirect \in BOOLEAN, upstream \in Upstreams :
                serveGetHead(method, p, useRedirect, upstream)
      [] method = "DELETE" -> \E p \in ServePaths : handleDelete(p)
      [] method = "MOVE" ->
            \E p \in ServePaths, d \in ServeDestinations, h \in Overwrites : handleMove(p, d, h)
      [] method = "COPY" ->
            \E p \in ServePaths, d \in ServeDestinations, h \in Overwrites : handleCopy(p, d, h)
      [] OTHER ->
            /\ Answered(method, StatusMethodNotAllowed, EmptyMap)
            /\ UNCHANGED fileMetadata

Serve == Idle /\ \E method \in Methods : ServeHTTP(method)

NextServe ==
    \/ Populate
    \/ Serve
    \/ finishMove
    \/ finishCopy

SpecServe == Init /\ [][NextServe]_vars

(***************************************************************************)
(* C30: OPTIONS is answered 200 with DAV: 1 and an Allow list that names    *)
(* exactly the methods ServeHTTP dispatches to a handler; a request of any  *)
(* other method is answered 405 and leaves the VFS and the store unchanged. *)
(***************************************************************************)
Range(seq) == { seq[i] : i \in 1..Len(seq) }

C30_Step ==
    \A method \in Methods :
        op' = method /\ Idle /\ ServeHTTP(method) =>
            /\ method = "OPTIONS" =>
                  /\ handler'.status = StatusOK
                  /\ handler'.header.DAV = "1"
                  /\ Range(handler'.header.Allow) = Range(Allow)
                  /\ UNCHANGED <<items, dirs, store>>
            /\ IF method \in Range(Allow)
               THEN handler'.stage = "idle" => handler'.status # StatusMethodNotAllowed
               ELSE /\ handler'.status = StatusMethodNotAllowed
                    /\ UNCHANGED <<items, dirs, store, fileMetadata>>

C30_Options == [][C30_Step]_vars

\* OPTIONS was answered, and a PUT was refused while the VFS held a file
C30_Witness ==
    /\ handler.method = "PUT" /\ handler.status = StatusMethodNotAllowed
    /\ \E p \in DOMAIN items : ~items[p].IsDir
    /\ calls = 2

(***************************************************************************)
(* C31: UpdateFile and RemoveFile of a path that is absent or names a       *)
(* directory return an error and change neither the store nor memory; a     *)
(* successful UpdateFile changes the url of its path in the store and in    *)
(* memory and nothing else: no path is created or removed and no other      *)
(* file's url changes.                                                      *)
(***************************************************************************)
NoFile(fp) == fp \notin DOMAIN items \/ items[fp].IsDir

C31_OnlyURL(fp, u) ==
    /\ DOMAIN items' = DOMAIN items /\ dirs' = dirs
    /\ DOMAIN store' = DOMAIN store
    /\ items'[fp] = [items[fp] EXCEPT !.URL = u] /\ store'[fp] = u
    /\ \A q \in DOMAIN items \ {fp} : items'[q] = items[q]
    /\ \A q \in DOMAIN store \ {fp} : store'[q] = store[q]

C31_Step ==
    \A p \in RawPaths :
        /\ op' = "UpdateFile" =>
              \A u \in URLs :
                  UpdateFile(p, u) =>
                      IF NoFile(Canon(p))
                      THEN err' /\ UNCHANGED <<items, dirs, store>>
                      ELSE ~err' => C31_OnlyURL(Canon(p), u)
        /\ op' = "RemoveFile" /\ RemoveFile(p) /\ NoFile(Canon(p)) =>
              err' /\ UNCHANGED <<items, dirs, store>>

C31_UpdateRemove == [][C31_Step]_vars

(***************************************************************************)
(* C32: a MOVE or COPY request answered with an error status (4xx or 5xx)   *)
(* leaves the VFS and the store as they were before the request.  A request *)
(* answered in one step leaves items, dirs and store unchanged; a request   *)
(* that first removed its destination and then failed can only have left    *)
(* them unchanged if the destination exists again when it is answered.      *)
(***************************************************************************)
IsError(st) == st >= 400

C32_Step ==
    /\ Idle /\ op' \in {"MOVE", "COPY"} /\ handler'.stage = "idle"
       /\ IsError(handler'.status) =>
          UNCHANGED <<items, dirs, store>>
    /\ (finishMove \/ finishCopy) /\ IsError(handler'.status) =>
          ExistsIn(Mem(items', dirs'), handler.dst)

C32_ErrorUnchanged == [][C32_Step]_vars

(***************************************************************************)
(* C33: after VFS mutations that all succeed, every directory other than    *)
(* "/" has a file somewhere beneath it and every directory marker other     *)
(* than "/" has a directory item.                                           *)
(***************************************************************************)
Directories == dirs \cup { p \in DOMAIN items : items[p].IsDir }

C33_NoEmptyDirectory ==
    /\ \A d \in Directories \ {Root} :
          \E f \in DOMAIN items : ~items[f].IsDir /\ HasPrefix(f, d \o <<"/">>)
    /\ \A d \in dirs \ {Root} : d \in DOMAIN items /\ items[d].IsDir

(***************************************************************************)
(* PROPFIND call by call, racing with AddFile and RemoveFile                *)
(***************************************************************************)
PropPaths == { Root, <<"/", "a">>, <<"/", "a", "/", "a">> }

\* the steps of a PROPFIND change nothing else
PropFindOnly ==
    UNCHANGED <<items, dirs, store, faults, calls, added, op, args, err, mutex, pc, call,
                lin, handler, metadataCache, fileMetadata, bulk, cacheMutex, server>>

\* the hrefs of the responses createResponse gives
hrefsOf(requestPath) ==
    LET rs == createResponse(requestPath, URLs) IN [i \in 1..Len(rs) |-> rs[i].Href]

\* the request arrives and h.vfs.Exists answers
propExists ==
    /\ propfind.stage \in {"idle", "done"}
    /\ \E requestPath \in PropPaths, depth \in {"0", "1"} :
          propfind' = IF ~Exists(Canon(requestPath))
                      THEN [NoPropFind EXCEPT !.stage = "done", !.path = Canon(requestPath),
                                              !.depth = depth, !.status = StatusNotFound]
                      ELSE [NoPropFind EXCEPT !.stage = "self", !.path = Canon(requestPath),
                                              !.depth = depth]
    /\ PropFindOnly

\* createResponse(normalizedPath)
propSelf ==
    /\ propfind.stage = "self"
    /\ propfind' = [propfind EXCEPT !.stage = "isDir", !.responses = hrefsOf(propfind.path)]
    /\ PropFindOnly

\* depth != "0" && h.vfs.IsDir(normalizedPath)
propIsDir ==
    /\ propfind.stage = "isDir"
    /\ propfind' = [propfind EXCEPT
                      !.stage = IF propfind.depth # "0" /\ IsDir(propfind.path)
                                THEN "list" ELSE "reply"]
    /\ PropFindOnly

\* h.vfs.ListDir(normalizedPath)
propListDir ==
    /\ propfind.stage = "list"
    /\ \E children \in ListDir(propfind.path) :
          propfind' = [propfind EXCEPT
                         !.stage = "children",
                         !.children = [i \in 1..Len(children) |-> children[i].Path]]
    /\ PropFindOnly

\* createResponse(child.Path) of the next child, or the end of the loop
propChild ==
    /\ propfind.stage = "children"
    /\ propfind' = IF propfind.i > Len(propfind.children)
                   THEN [propfind EXCEPT !.stage = "reply"]
                   ELSE [propfind EXCEPT
                           !.i = @ + 1,
                           !.responses = @ \o hrefsOf(propfind.children[propfind.i])]
    /\ PropFindOnly

\* w.WriteHeader(http.StatusMultiStatus)
propReply ==
    /\ propfind.stage = "reply"
    /\ propfind' = [propfind EXCEPT !.stage = "done", !.status = StatusMultiStatus]
    /\ PropFindOnly

NextPropFind ==
    \/ DoAddFile
    \/ DoRemoveFile
    \/ propExists
    \/ propSelf
    \/ propIsDir
    \/ propListDir
    \/ propChild
    \/ propReply

SpecPropFind == Init /\ [][NextPropFind]_vars

(***************************************************************************)
(* C34: a PROPFIND that races with VFS mutations answers 404, or a 207      *)
(* whose first response is the requested path and whose other responses are *)
(* children of the one listing it took; never a 207 with no response or     *)
(* without the requested path.                                              *)
(***************************************************************************)
C34_Race ==
    propfind.stage = "done" =>
        \/ propfind.status = StatusNotFound
        \/ /\ propfind.status = StatusMultiStatus
           /\ Len(propfind.responses) >= 1
           /\ propfind.responses[1] \in {propfind.path, propfind.path \o <<"/">>}
           /\ \A i \in 2..Len(propfind.responses) :
                 \E j \in 1..Len(propfind.children) :
                     propfind.responses[i] \in
                         {propfind.children[j], propfind.children[j] \o <<"/">>}

(***************************************************************************)
(* handleGetHead and UpdateFile step by step: the item GetItem returns is a *)
(* pointer into vfs.items, read by the handler after GetItem's RUnlock      *)
(***************************************************************************)
RacePaths == { <<"/", "a">>, <<"/", "b">> }

\* AddFile, run while nobody holds the mutex
raceAddFile ==
    /\ More
    /\ CanLock
    /\ \E p \in RacePaths, u \in URLs :
          /\ AddFile(p, u)
          /\ Counted("AddFile", <<Canon(p)>>)
    /\ UNCHANGED added

\* a goroutine calls UpdateFile
InvokeUpdateFile(g) ==
    /\ pc[g] = "idle"
    /\ More
    /\ calls' = calls + 1
    /\ \E p \in RacePaths, u \in URLs :
          Goto(g, "Lock", [NoCall EXCEPT !.name = "UpdateFile", !.dst = p, !.url = u])
    /\ UNCHANGED <<items, dirs, store, mutex, lin>>
    /\ Quiet

\* UpdateFile: the item is looked up and must be a file
UpdateFileCheck(g) ==
    /\ pc[g] = "check" /\ call[g].name = "UpdateFile"
    /\ IF call[g].dst \notin DOMAIN items \/ items[call[g].dst].IsDir
       THEN Goto(g, "Unlock", call[g])
       ELSE Goto(g, "SetFileEntry", [call[g] EXCEPT !.ok = TRUE])
    /\ UNCHANGED <<items, dirs, store, calls, mutex, lin>>
    /\ Quiet

\* UpdateFile: vfs.store.SetFileEntry(entry)
UpdateFilePersist(g) ==
    /\ pc[g] = "SetFileEntry" /\ call[g].name = "UpdateFile"
    /\ store' = Put(store, call[g].dst, call[g].url)
    /\ Goto(g, "write item.URL", call[g])
    /\ UNCHANGED <<items, dirs, calls, mutex, lin>>
    /\ Quiet

\* UpdateFile: item.URL = fileURL, written in place
UpdateFileItem(g) ==
    /\ pc[g] = "write item.URL"
    /\ items' = [items EXCEPT ![call[g].dst].URL = call[g].url]
    /\ Goto(g, "Unlock", call[g])
    /\ UNCHANGED <<dirs, store, calls, mutex, lin>>
    /\ Quiet

\* UpdateFile: the deferred vfs.mutex.Unlock() and the return
UpdateFileUnlock(g) ==
    /\ pc[g] = "Unlock" /\ call[g].name = "UpdateFile"
    /\ mutex' = [mutex EXCEPT !.writer = ""]
    /\ Goto(g, "idle", NoCall)
    /\ UNCHANGED <<items, dirs, store, calls, lin>>
    /\ Quiet

\* handleGetHead: h.vfs.GetItem takes the read lock
itemRLock(q) ==
    /\ pc[q] = "idle"
    /\ CanRLock
    /\ mutex' = [mutex EXCEPT !.readers = @ \cup {q}]
    /\ \E p \in RacePaths : Goto(q, "GetItem", [NoCall EXCEPT !.name = "GET", !.src = p])
    /\ RequestOnly /\ UNCHANGED fileMetadata

\* GetItem: item, exists := vfs.items[path]; the item is a pointer
itemGetItem(q) ==
    /\ pc[q] = "GetItem"
    /\ Goto(q, "RUnlock", [call[q] EXCEPT !.ok = GetItem(call[q].src)[2]])
    /\ RequestOnly /\ UNCHANGED <<mutex, fileMetadata>>

\* GetItem: the deferred RUnlock; Not Found when there is no item
itemRUnlock(q) ==
    /\ pc[q] = "RUnlock"
    /\ mutex' = [mutex EXCEPT !.readers = @ \ {q}]
    /\ IF call[q].ok THEN Goto(q, "item.IsDir", call[q]) ELSE Goto(q, "idle", NoCall)
    /\ RequestOnly /\ UNCHANGED fileMetadata

\* handleGetHead: if item.IsDir
itemIsDir(q) ==
    /\ pc[q] = "item.IsDir"
    /\ IF items[call[q].src].IsDir
       THEN Goto(q, "idle", NoCall)
       ELSE Goto(q, "read item.URL", call[q])
    /\ RequestOnly /\ UNCHANGED <<mutex, fileMetadata>>

\* handleGetHead: item.URL is read for the redirect or for proxyContent; a
\* read that races with UpdateFile's write gives the old or the new url
itemURL(q) ==
    /\ pc[q] = "read item.URL"
    /\ \E u \in {items[call[q].src].URL} \cup
                { call[g].url : g \in { w \in Writers : /\ pc[w] = "write item.URL"
                                                         /\ call[w].dst = call[q].src } } :
          Goto(q, "upstream", [call[q] EXCEPT !.url = u])
    /\ RequestOnly /\ UNCHANGED <<mutex, fileMetadata>>

NextRace ==
    \/ raceAddFile
    \/ InvokeUpdateFile("w1")
    \/ Lock("w1")
    \/ UpdateFileCheck("w1")
    \/ UpdateFilePersist("w1")
    \/ UpdateFileItem("w1")
    \/ UpdateFileUnlock("w1")
    \/ itemRLock("q1")
    \/ itemGetItem("q1")
    \/ itemRUnlock("q1")
    \/ itemIsDir("q1")
    \/ itemURL("q1")
    \/ requestUpstream("q1")

SpecRace == Init /\ [][NextRace]_vars

(***************************************************************************)
(* C35: a handler's read of the url of an item it got from GetItem is       *)
(* ordered by the VFS lock with UpdateFile's write of that url: the handler *)
(* is never about to read item.URL, holding no lock, while UpdateFile is    *)
(* about to write the same item's URL.                                      *)
(***************************************************************************)
C35_NoRace ==
    \A q \in Requests, g \in Writers :
        pc[q] = "read item.URL" /\ pc[g] = "write item.URL" /\ call[q].src = call[g].dst
            => q \in mutex.readers

(***************************************************************************)
(* C36: when a store write fails inside MoveFile, MoveDirectory,            *)
(* RemoveDirectory or CopyDirectory the call returns an error and the files *)
(* in memory, their paths and urls, are what they were before the call.     *)
(***************************************************************************)
MemoryFiles(it) == { <<q, it[q].URL>> : q \in { f \in DOMAIN it : ~it[f].IsDir } }

C36_Step ==
    op' \in {"MoveFile", "MoveDirectory", "RemoveDirectory", "CopyDirectory"}
    /\ calls' = calls + 1 /\ faults' < faults =>
        err' /\ MemoryFiles(items') = MemoryFiles(items)

AdminPaths == { << >>, <<"/", "a">>, <<"a", "/">>, <<"/", "b">> }
AdminURLs == URLs \cup {""}
ImportEntries == [Path : { <<"/", "a">>, <<"/", "b">> }, URL : {"u1"}]
ImportFiles == UNION { [1..n -> ImportEntries] : n \in 0..MaxBulk }

\* an admin request is answered: the VFS is not called
AdminServed(name, st) ==
    /\ err' = FALSE
    /\ UNCHANGED <<items, dirs>>
    /\ Served(name, st)

\* POST /admin/api/files: h.store.SetFileEntry(&entry)
adminAddFile(path, url) ==
    IF path = << >> \/ url = ""
    THEN AdminServed("handleAddFile", StatusBadRequest) /\ UNCHANGED <<store, faults>>
    ELSE \/ /\ MayFail
            /\ faults' = faults - 1
            /\ UNCHANGED store
            /\ AdminServed("handleAddFile", StatusInternalServerError)
         \/ /\ store' = Put(store, path, url)
            /\ UNCHANGED faults
            /\ AdminServed("handleAddFile", StatusOK)

\* DELETE /admin/api/delete-file: h.store.DeleteFileEntry(path)
adminDeleteFile(path) ==
    IF path = << >>
    THEN AdminServed("handleDeleteFileAPI", StatusBadRequest) /\ UNCHANGED <<store, faults>>
    ELSE \/ /\ MayFail
            /\ faults' = faults - 1
            /\ UNCHANGED store
            /\ AdminServed("handleDeleteFileAPI", StatusInternalServerError)
         \/ /\ store' = Del(store, path)
            /\ UNCHANGED faults
            /\ AdminServed("handleDeleteFileAPI", StatusOK)

\* the store after SetFileEntry of the first k entries
RECURSIVE ImportEntriesInto(_, _, _)
ImportEntriesInto(st, files, k) ==
    IF k = 0 THEN st
    ELSE Put(ImportEntriesInto(st, files, k - 1), files[k].Path, files[k].URL)

\* POST /admin/api/import: h.store.SetFileEntry(&entry) for every entry
adminImport(files) ==
    /\ store' = ImportEntriesInto(store, files, Len(files))
    /\ UNCHANGED faults
    /\ AdminServed("handleImportAPI", StatusOK)

AdminAdd == Idle /\ \E path \in AdminPaths, url \in AdminURLs : adminAddFile(path, url)
AdminDelete == Idle /\ \E path \in AdminPaths : adminDeleteFile(path)
AdminImport == Idle /\ \E files \in ImportFiles : adminImport(files)
AdminVFS ==
    /\ Idle
    /\ \E p \in AdminPaths \ {<< >>}, u \in URLs :
          /\ AddFile(p, u)
          /\ Counted("AddFile", <<Canon(p)>>)
    /\ UNCHANGED added

NextAdmin ==
    \/ AdminVFS
    \/ AdminAdd
    \/ AdminDelete
    \/ AdminImport

SpecAdmin == Init /\ [][NextAdmin]_vars

(***************************************************************************)
(* C37: after every completed admin request the entries of the store and   *)
(* the files of the VFS index agree: a request that finds them in agreement *)
(* leaves them in agreement.                                                *)
(***************************************************************************)
Agree(st, it) == StoreEntries(st) = FilesOf(it)

C37_Step ==
    op' \in {"handleAddFile", "handleDeleteFileAPI", "handleImportAPI"}
    /\ calls' = calls + 1 /\ Agree(store, items) =>
        Agree(store', items')

C37_Agree == [][C37_Step]_vars

(***************************************************************************)
(* C38: MetadataCache.Set on a url that is already cached replaces that     *)
(* entry and leaves every other entry in place, also at capacity.           *)
(***************************************************************************)
C38_Step ==
    \A url \in CacheURLs, size \in Sizes :
        url \in DOMAIN metadataCache.cache /\ Set(url, size) =>
            /\ DOMAIN metadataCache'.cache = DOMAIN metadataCache.cache
            /\ \A j \in (DOMAIN metadataCache.cache) \ {url} :
                  metadataCache'.cache[j] = metadataCache.cache[j]

C38_SetExisting == [][C38_Step]_vars

(***************************************************************************)
(* The two locks: vfs.mutex and MetadataCache.mutex.  Requests read the VFS *)
(* or ask the cache its Size (handleHealth), writers call AddFile, the      *)
(* cleanup goroutine sweeps the cache.  A sync.RWMutex holds new readers    *)
(* back while a writer waits.                                               *)
(***************************************************************************)
LocksOnly ==
    UNCHANGED <<items, dirs, store, calls, lin, faults, added, op, args, err, handler,
                fileMetadata, bulk, propfind, server>>

\* the name of the cleanup goroutine as a holder of the cache lock
Sweeper == "cleanup"

HoldsVFS(g) == mutex.writer = g \/ g \in mutex.readers
HoldsCache(g) == cacheMutex.writer = g \/ g \in cacheMutex.readers

\* the path the contending writers add
LockPath == <<"/", "a">>
\* the goroutine serving the requests that read the VFS or ask the cache
LockRequests == {"q1"}

\* a goroutine calls AddFile
InvokeAddFile(g) ==
    /\ pc[g] = "idle"
    /\ More
    /\ Room
    /\ calls' = calls + 1
    /\ Goto(g, "Lock", [NoCall EXCEPT !.name = "AddFile", !.dst = LockPath, !.url = ConcURL])
    /\ UNCHANGED <<items, dirs, store, mutex, lin>>
    /\ Quiet

\* a request calls a VFS lookup
readInvoke(q) ==
    /\ pc[q] = "idle"
    /\ Goto(q, "vfs.RLock", call[q])
    /\ LocksOnly /\ UNCHANGED <<mutex, metadataCache, cacheMutex, server>>

\* vfs.mutex.RLock()
readRLock(q) ==
    /\ pc[q] = "vfs.RLock"
    /\ CanRLock
    /\ \A w \in Writers : pc[w] # "Lock"
    /\ mutex' = [mutex EXCEPT !.readers = @ \cup {q}]
    /\ Goto(q, "reading", call[q])
    /\ LocksOnly /\ UNCHANGED <<metadataCache, cacheMutex, server>>

\* a request that keeps the read lock of the cache when Size returns
sizeKeepRLock(q) ==
    /\ pc[q] = "cache.Size"
    /\ Goto(q, "idle", call[q])
    /\ LocksOnly /\ UNCHANGED <<mutex, metadataCache, cacheMutex, server>>

\* handleHealth calls s.cache.Size()
sizeInvoke(q) ==
    /\ pc[q] = "idle"
    /\ Goto(q, "cache.RLock", call[q])
    /\ LocksOnly /\ UNCHANGED <<mutex, metadataCache, cacheMutex, server>>

\* Size: c.mutex.RLock()
sizeRLock(q) ==
    /\ pc[q] = "cache.RLock"
    /\ cacheMutex.writer = ""
    /\ metadataCache.cleanup # "removeExpired"
    /\ cacheMutex' = [cacheMutex EXCEPT !.readers = @ \cup {q}]
    /\ Goto(q, "cache.Size", call[q])
    /\ LocksOnly /\ UNCHANGED <<mutex, metadataCache>>

\* Size: len(c.cache) and the deferred c.mutex.RUnlock()
sizeRUnlock(q) ==
    /\ pc[q] = "cache.Size"
    /\ cacheMutex' = [cacheMutex EXCEPT !.readers = @ \ {q}]
    /\ Goto(q, "idle", call[q])
    /\ LocksOnly /\ UNCHANGED <<mutex, metadataCache>>

\* removeExpired: c.mutex.Lock()
sweepLock ==
    /\ metadataCache.cleanup = "removeExpired"
    /\ cacheMutex = [writer |-> "", readers |-> {}]
    /\ cacheMutex' = [cacheMutex EXCEPT !.writer = Sweeper]
    /\ metadataCache' = [metadataCache EXCEPT !.cleanup = "locked"]
    /\ LocksOnly /\ UNCHANGED <<mutex, pc, call>>

\* removeExpired: the expired entries are deleted; the deferred Unlock
sweepUnlock ==
    /\ metadataCache.cleanup = "locked"
    /\ cacheMutex' = [cacheMutex EXCEPT !.writer = ""]
    /\ metadataCache' =
          [metadataCache EXCEPT
              !.cache = removeExpired(@, metadataCache.now),
              !.cleanup = "select"]
    /\ LocksOnly /\ UNCHANGED <<mutex, pc, call>>

AddFileSteps(g) ==
    \/ AddFileCheck(g)
    \/ AddFilePersist(g)
    \/ AddFileItem(g)
    \/ AddFileParent(g)
    \/ Unlock(g)
    \/ Return(g)

NextLocks ==
    \/ \E g \in Writers : InvokeAddFile(g) \/ Lock(g) \/ AddFileSteps(g)
    \/ \E q \in LockRequests :
          \/ readInvoke(q)
          \/ readRLock(q)
          \/ RUnlock(q)
          \/ sizeInvoke(q)
          \/ sizeRLock(q)
          \/ sizeRUnlock(q)
    \/ Tick
    \/ cleanupTick
    \/ sweepLock
    \/ sweepUnlock

\* what a request does once it has asked for a lock or holds one
requestSteps(q) ==
    \/ readRLock(q)
    \/ RUnlock(q)
    \/ sizeRLock(q)
    \/ sizeRUnlock(q)

\* fair scheduling of the goroutines, store calls that return, and mutexes
\* that let a waiting goroutine in
FairLocks ==
    /\ \A g \in Writers : WF_vars(Lock(g) \/ AddFileSteps(g))
    /\ \A q \in LockRequests : WF_vars(requestSteps(q))
    /\ WF_vars(sweepLock \/ sweepUnlock)

SpecLocks == Init /\ [][NextLocks]_vars /\ FairLocks

(***************************************************************************)
(* C39: no goroutine acquires the VFS lock while it holds the cache lock,   *)
(* and every goroutine that requests a lock acquires it and releases it.    *)
(***************************************************************************)
\* g has asked for a lock and has not got it yet
Waits(g) ==
    \/ g \in Goroutines /\ pc[g] \in {"Lock", "vfs.RLock", "cache.RLock"}
    \/ g = Sweeper /\ metadataCache.cleanup = "removeExpired"

\* g neither waits for a lock nor holds one
Released(g) == ~Waits(g) /\ ~HoldsVFS(g) /\ ~HoldsCache(g)

C39_OrderStep ==
    \A g \in Goroutines \cup {Sweeper} :
        /\ HoldsVFS(g)' /\ ~HoldsVFS(g) => ~HoldsCache(g) /\ ~HoldsCache(g)'
        /\ Waits(g) /\ ~Waits(g)' => HoldsVFS(g)' \/ HoldsCache(g)'

C39_Live == \A g \in Writers \cup LockRequests \cup {Sweeper} : []<>Released(g)

C39_Locks == [][C39_OrderStep]_vars /\ C39_Live

\* two writers wait for the VFS lock a request holds for reading, while the
\* sweep holds the cache lock
C39_Witness ==
    /\ pc["w1"] = "Lock" /\ pc["w2"] = "Lock" /\ "q1" \in mutex.readers
    /\ cacheMutex.writer = Sweeper

(***************************************************************************)
(* The process: main's loop creates a Server and starts it; Start serves    *)
(* HTTP and waits in waitForShutdown for an OS signal, a Restart() or a     *)
(* Shutdown() of the admin panel; main creates the next Server when Start   *)
(* returned ErrRestart.                                                     *)
(***************************************************************************)
ServerOnly ==
    UNCHANGED <<items, dirs, store, faults, calls, added, op, args, err, mutex, pc, call,
                lin, handler, metadataCache, fileMetadata, bulk, propfind, cacheMutex>>

\* main: server.New(cfg) opens the store of the data directory
mainNew ==
    /\ server.main = "New"
    /\ server' = [server EXCEPT !.main = "Start", !.open = @ \cup {server.instance},
                                !.isRestart = FALSE, !.quit = FALSE]
    /\ ServerOnly

\* Start: the goroutine of ListenAndServe is started
serverStart ==
    /\ server.main = "Start"
    /\ server' = [server EXCEPT !.main = "waitForShutdown", !.httpServer = "serving"]
    /\ ServerOnly

\* waitForShutdown: signal.Notify and the select begins to receive
waitSelect ==
    /\ server.main = "waitForShutdown"
    /\ server.wait = "none"
    /\ server' = [server EXCEPT !.wait = "select"]
    /\ ServerOnly

\* SIGINT or SIGTERM is delivered to the quit channel, which holds one signal
osSignal ==
    /\ server.wait # "none"
    /\ ~server.quit
    /\ server' = [server EXCEPT !.quit = TRUE]
    /\ ServerOnly

\* the select receives from quit
waitQuit ==
    /\ server.wait = "select"
    /\ server.quit
    /\ server' = [server EXCEPT !.wait = "Shutdown", !.quit = FALSE,
                                !.accepted[server.instance] = "signal"]
    /\ ServerOnly

\* a call of the admin panel is counted
Called(name, ok) == [server EXCEPT !.n = @ + 1, !.last = [name |-> name, ok |-> ok]]

\* Restart: the send on restartChan succeeds when the select is receiving
\* and the default case returns an error otherwise
Restart ==
    /\ server.httpServer = "serving"
    /\ server.n < MaxCalls
    /\ server' =
          IF server.wait = "select"
          THEN [Called("Restart", TRUE) EXCEPT
                   !.wait = "Shutdown", !.isRestart = TRUE,
                   !.accepted[server.instance] = "restart",
                   !.restarted = @ \cup {server.instance}]
          ELSE Called("Restart", FALSE)
    /\ ServerOnly

\* Shutdown: the send on shutdownChan, the same way
Shutdown ==
    /\ server.httpServer = "serving"
    /\ server.n < MaxCalls
    /\ server' =
          IF server.wait = "select"
          THEN [Called("Shutdown", TRUE) EXCEPT
                   !.wait = "Shutdown", !.accepted[server.instance] = "shutdown"]
          ELSE Called("Shutdown", FALSE)
    /\ ServerOnly

\* waitForShutdown: httpServer.Shutdown(ctx) returns nil
httpShutdown ==
    /\ server.wait = "Shutdown"
    /\ server' = [server EXCEPT !.wait = "Close", !.httpServer = "shutdown",
                                !.down = @ \cup {server.instance}]
    /\ ServerOnly

\* waitForShutdown: httpServer.Shutdown(ctx) returns an error, the 30 seconds
\* of ctx being over with a connection still active; the error is returned
httpShutdownError ==
    /\ server.wait = "Shutdown"
    /\ server' = [server EXCEPT !.wait = "none", !.main = "returned",
                                !.returned[server.instance] = "err"]
    /\ ServerOnly

\* waitForShutdown: store.Close(), then ErrRestart or nil is returned
storeClose ==
    /\ server.wait = "Close"
    /\ server' = [server EXCEPT
                     !.wait = "none", !.main = "returned",
                     !.open = @ \ {server.instance},
                     !.closed = @ \cup {server.instance},
                     !.returned[server.instance] =
                         IF server.isRestart THEN "ErrRestart" ELSE "nil"]
    /\ ServerOnly

\* main: break on nil, continue on ErrRestart, log.Fatalf on another error
mainNext ==
    /\ server.main = "returned"
    /\ LET r == server.returned[server.instance]
       IN  \/ /\ r = "nil"
              /\ server' = [server EXCEPT !.main = "exit"]
           \/ /\ r = "ErrRestart"
              /\ server.instance < MaxInstances
              /\ server' = [server EXCEPT !.main = "New", !.instance = @ + 1,
                                          !.httpServer = "none"]
           \/ /\ r = "err"
              /\ server' = [server EXCEPT !.main = "Fatalf"]
    /\ ServerOnly

serverSteps ==
    \/ mainNew
    \/ serverStart
    \/ waitSelect
    \/ waitQuit
    \/ httpShutdown
    \/ httpShutdownError
    \/ storeClose
    \/ mainNext

NextServer ==
    \/ serverSteps
    \/ osSignal
    \/ Restart
    \/ Shutdown

\* main and the wait loop are scheduled, and the calls they make return
SpecServer == Init /\ [][NextServer]_vars /\ WF_vars(serverSteps)

(***************************************************************************)
(* C40: a Restart() that returned nil is followed by the instance shutting  *)
(* down its HTTP server and closing its store before main creates the next  *)
(* instance; Start returns ErrRestart exactly when the accepted signal was  *)
(* a restart; an instance acts on at most one signal; a Restart() or        *)
(* Shutdown() made while no wait loop is receiving returns an error and     *)
(* changes nothing.                                                         *)
(***************************************************************************)
C40_State ==
    \A i \in Instances :
        /\ i < server.instance => i \in server.down /\ i \in server.closed
        /\ server.returned[i] # "" =>
              (server.returned[i] = "ErrRestart" <=> server.accepted[i] = "restart")

C40_Step ==
    /\ \A i \in Instances :
          server.accepted[i] # "" => server.accepted'[i] = server.accepted[i]
    /\ server.n' # server.n /\ server.wait # "select" =>
          /\ ~server.last'.ok
          /\ server' = [server EXCEPT !.n = server.n', !.last = server.last']

C40_Live ==
    \A i \in Instances :
        i \in server.restarted ~> (i \in server.down /\ i \in server.closed)

C40_Restart == []C40_State /\ [][C40_Step]_vars /\ C40_Live

====
